---- MODULE Spec2Model ----
(***************************************************************************)
(* Procedural terrain subsystem of fakeopenworld (terrain.js):             *)
(* the Heightmap grid with its point and shape edits, and                  *)
(* createTerrainMesh, which turns a Heightmap into an indexed triangle     *)
(* mesh with averaged vertex normals.                                      *)
(*                                                                         *)
(* JavaScript numbers are modelled in fixed point: the integer n stands    *)
(* for the number n / Scale.  Array indices, grid coordinates and loop     *)
(* counters are plain integers.  Products and quotients of two numbers     *)
(* are rounded down to the next multiple of 1 / Scale; every value the     *)
(* edits and the mesh topology work with (heights, half-integer            *)
(* positions, unit steps) is exact in this representation.  The rounding   *)
(* of a Float32Array store (24 significant bits) is below this resolution  *)
(* and is not modelled: a cell holds the number written to it.  The        *)
(* heights the edits write here are numbers a 32-bit float holds exactly;  *)
(* the noise sums and the 1.8 of generateProceduralHeightmap are not, and  *)
(* stand for their nearest 32-bit floats.                                  *)
(***************************************************************************)
EXTENDS Integers, Sequences, FiniteSets, TLC

VARIABLES
    hm,      \* the Heightmap object: [width, height, data]
    edit,    \* the last Heightmap method called: [op, args, before]
    result,  \* what the last Heightmap.get returned
    mesh,    \* what the last createTerrainMesh returned
    pc,      \* where the program is: "new" | "edited" | "built"; inside
             \* createTerrainMesh: "vertexLoop" | "indexLoop" | "return" |
             \* "returned"; inside generateProceduralHeightmap: "noise"
    count,   \* createTerrainMesh run push by push: its locals width, height,
             \* z, x, and the lengths of its arrays vertices and indices
    runs,    \* the Heightmaps returned by generateProceduralHeightmap so far
    noise,   \* a PerlinNoise object: [gradients, memory, seed]
    samples, \* the calls of noise.get so far: [x, y, value, remembered] each,
             \* remembered telling whether the call returned this.memory[key]
    builds,  \* the calls of createTerrainMesh so far: [heightmap, mesh] each
    stamps,  \* the drawRectangle and drawCircle calls made on hm since
             \* edit.before: [op, args] each
    reduction, \* the normal accumulation run by workers: [mode, normals,
             \* todo, worker, atomicResult]
    mattePaintingManager, \* the MattePaintingManager object: [textureLoader,
             \* skyboxTexture, skyboxCubemap, useProcedural, useCubemap]
    images   \* the Image objects created by the TextureLoader and what
             \* happened to them: [textures, requests, calls, invoked,
             \* completed]

vars == <<hm, edit, result, mesh, pc, count, runs, noise, samples, builds,
          stamps, reduction, mattePaintingManager, images>>

-----------------------------------------------------------------------------
(* Numbers *)

\* resolution of the fixed-point representation: 1.0 is Scale (even, so that
\* the half-integer vertex positions are exact)
Scale == 10 * 10 * 10

Num(n) == n * Scale

Mul(a, b) == (a * b) \div Scale

Div(a, b) == (a * Scale) \div b

\* Math.floor and Math.ceil of a number, as an integer
Floor(a) == a \div Scale

Ceil(a) == -((-a) \div Scale)

\* Math.sqrt of a number >= 0, rounded down: the largest r with r * r <= a
RECURSIVE SqrtBetween(_, _, _)
SqrtBetween(n, lo, hi) ==
    IF lo = hi THEN lo
    ELSE LET mid == (lo + hi + 1) \div 2
         IN  IF mid * mid <= n THEN SqrtBetween(n, mid, hi)
             ELSE SqrtBetween(n, lo, mid - 1)

Sqrt(a) == SqrtBetween(a * Scale, 0, 46340)

\* TLC computes the argument of an operator only when it is used; a loop
\* that hands its result on unused would grow one nested expression per
\* iteration.  Evaluated(v) is true, and makes TLC compute v where it stands.
Evaluated(v) == v = v

-----------------------------------------------------------------------------
(* Bounds of the model *)

\* largest width and height of a Heightmap
MaxDim == 3

\* largest width and height of a stamped rectangle
MaxRect == 2

\* largest radius of a stamped circle, in half cells
MaxRadius2 == 3

-----------------------------------------------------------------------------
(* class Heightmap *)

\* constructor(width, height): a zero-filled Float32Array of width * height
Heightmap(width, height) ==
    [width |-> width, height |-> height,
     data |-> [i \in 0..(width * height - 1) |-> 0]]

OutOfBounds(h, x, y) == x < 0 \/ x >= h.width \/ y < 0 \/ y >= h.height

\* get with column 0 and row 0 taken for out of bounds (<= for <)
get_lowerOffByOne(h, x, y) ==
    IF x <= 0 \/ x >= h.width \/ y <= 0 \/ y >= h.height THEN 0
    ELSE h.data[y * h.width + x]

get(h, x, y) ==
    IF OutOfBounds(h, x, y) THEN 0 ELSE h.data[y * h.width + x]

\* set that keeps the larger of the old and the new value
set_keepsLarger(h, x, y, v) ==
    IF OutOfBounds(h, x, y) THEN h
    ELSE [h EXCEPT !.data[y * h.width + x] = IF @ > v THEN @ ELSE v]

\* set without the test x >= width: the write lands in the next row, and a
\* write past the end of the typed array is ignored
set_noRightCheck(h, x, y, v) ==
    IF x < 0 \/ y < 0 \/ y >= h.height \/ (y * h.width + x) \notin DOMAIN h.data
    THEN h
    ELSE [h EXCEPT !.data[y * h.width + x] = v]

set(h, x, y, v) ==
    IF OutOfBounds(h, x, y) THEN h
    ELSE [h EXCEPT !.data[y * h.width + x] = v]

add(h, x, y, v) ==
    IF OutOfBounds(h, x, y) THEN h
    ELSE [h EXCEPT !.data[y * h.width + x] = @ + v]

\* drawRectangle's inner loop with px <= x + width for px < x + width
RECURSIVE drawRectangleRow_inclusive(_, _, _, _, _, _)
drawRectangleRow_inclusive(h, px, py, x, width, heightValue) ==
    IF px <= x + width /\ px < h.width
    THEN drawRectangleRow_inclusive(
             IF px >= 0 /\ py >= 0 THEN set(h, px, py, heightValue) ELSE h,
             px + 1, py, x, width, heightValue)
    ELSE h

\* drawRectangle's inner loop raising the cells by heightValue with add(),
\* where the code overwrites them with set()
RECURSIVE drawRectangleRow_adds(_, _, _, _, _, _)
drawRectangleRow_adds(h, px, py, x, width, heightValue) ==
    IF px < x + width /\ px < h.width
    THEN drawRectangleRow_adds(
             IF px >= 0 /\ py >= 0 THEN add(h, px, py, heightValue) ELSE h,
             px + 1, py, x, width, heightValue)
    ELSE h

\* drawRectangle, inner loop: for (px = ...; px < x + width && px < this.width; px++)
RECURSIVE drawRectangleRow(_, _, _, _, _, _)
drawRectangleRow(h, px, py, x, width, heightValue) ==
    IF px < x + width /\ px < h.width
    THEN drawRectangleRow(
             IF px >= 0 /\ py >= 0 THEN set(h, px, py, heightValue) ELSE h,
             px + 1, py, x, width, heightValue)
    ELSE h

\* drawRectangle, outer loop: for (py = ...; py < y + height && py < this.height; py++)
RECURSIVE drawRectangleRows(_, _, _, _, _, _, _)
drawRectangleRows(h, py, x, y, width, height, heightValue) ==
    IF py < y + height /\ py < h.height
    THEN drawRectangleRows(
             drawRectangleRow(h, x, py, x, width, heightValue),
             py + 1, x, y, width, height, heightValue)
    ELSE h

drawRectangle(h, x, y, width, height, heightValue) ==
    drawRectangleRows(h, y, x, y, width, height, heightValue)

\* drawCircle's inner loop with distSq < radiusSq for distSq <= radiusSq
RECURSIVE drawCircleRow_strict(_, _, _, _, _, _, _)
drawCircleRow_strict(h, x, y, centerX, centerY, radius, heightValue) ==
    IF Evaluated(h) /\ x <= Ceil(centerX + radius)
    THEN LET dx == Num(x) - centerX
             dy == Num(y) - centerY
             distSq == Mul(dx, dx) + Mul(dy, dy)
             radiusSq == Mul(radius, radius)
         IN  drawCircleRow_strict(
                 IF distSq < radiusSq THEN set(h, x, y, heightValue) ELSE h,
                 x + 1, y, centerX, centerY, radius, heightValue)
    ELSE h

\* drawCircle, inner loop over x; centerX, centerY, radius are numbers
RECURSIVE drawCircleRow(_, _, _, _, _, _, _)
drawCircleRow(h, x, y, centerX, centerY, radius, heightValue) ==
    IF Evaluated(h) /\ x <= Ceil(centerX + radius)
    THEN LET dx == Num(x) - centerX
             dy == Num(y) - centerY
             distSq == Mul(dx, dx) + Mul(dy, dy)
             radiusSq == Mul(radius, radius)
         IN  drawCircleRow(
                 IF distSq <= radiusSq THEN set(h, x, y, heightValue) ELSE h,
                 x + 1, y, centerX, centerY, radius, heightValue)
    ELSE h

\* drawCircle, outer loop over y
RECURSIVE drawCircleRows(_, _, _, _, _, _)
drawCircleRows(h, y, centerX, centerY, radius, heightValue) ==
    IF Evaluated(h) /\ y <= Ceil(centerY + radius)
    THEN drawCircleRows(
             drawCircleRow(h, Floor(centerX - radius), y,
                           centerX, centerY, radius, heightValue),
             y + 1, centerX, centerY, radius, heightValue)
    ELSE h

drawCircle(h, centerX, centerY, radius, heightValue) ==
    drawCircleRows(h, Floor(centerY - radius), centerX, centerY, radius, heightValue)

-----------------------------------------------------------------------------
(* class PerlinNoise *)

\* the values of Math.random() drawn here: 0 and 1/4
Randoms == {0, 250}

\* theta = Math.random() * 2 * Math.PI and { x: cos(theta), y: sin(theta) },
\* for the two draws above: theta = 0 and theta = pi / 2
rand_vect(random) ==
    IF random = 0 THEN [x |-> Num(1), y |-> 0] ELSE [x |-> 0, y |-> Num(1)]

\* constructor(seed = Math.random()): the seed is stored
PerlinNoise(seed) == [gradients |-> <<>>, memory |-> <<>>, seed |-> seed]

\* dot_prod_grid without the test of this.gradients[grid_key]: every call
\* draws a gradient and stores it
dot_prod_grid_alwaysDraws(perlin, x, y, vx, vy, random) ==
    LET d_vect == [x |-> x - Num(vx), y |-> y - Num(vy)]
        grid_key == <<vx, vy>>
        g_vect == rand_vect(random[grid_key])
    IN  [perlin |-> [perlin EXCEPT !.gradients =
                        [k \in DOMAIN @ \cup {grid_key} |->
                            IF k = grid_key THEN g_vect ELSE @[k]]],
         value |-> Mul(d_vect.x, g_vect.x) + Mul(d_vect.y, g_vect.y)]

\* dot_prod_grid(x, y, vx, vy): [perlin |-> the object after the call,
\* value |-> what is returned]; random[<<vx, vy>>] is what Math.random()
\* yields if this call draws
dot_prod_grid(perlin, x, y, vx, vy, random) ==
    LET d_vect == [x |-> x - Num(vx), y |-> y - Num(vy)]
        grid_key == <<vx, vy>>
        cached == grid_key \in DOMAIN perlin.gradients
        g_vect == IF cached THEN perlin.gradients[grid_key]
                  ELSE rand_vect(random[grid_key])
    IN  [perlin |-> IF cached THEN perlin
                    ELSE [perlin EXCEPT !.gradients = (grid_key :> g_vect) @@ @],
         value |-> Mul(d_vect.x, g_vect.x) + Mul(d_vect.y, g_vect.y)]

\* x ** n
RECURSIVE Pow(_, _)
Pow(x, n) == IF n = 0 THEN Num(1) ELSE Mul(Pow(x, n - 1), x)

smootherstep(x) == 6 * Pow(x, 5) - 15 * Pow(x, 4) + 10 * Pow(x, 3)

interp(x, a, b) == a + Mul(smootherstep(x), b - a)

\* if (this.memory[key]): the key is present and its value is not 0
Remembered(perlin, key) ==
    key \in DOMAIN perlin.memory /\ perlin.memory[key] # 0

\* PerlinNoise.get(x, y): [perlin |-> the object after the call, value |-> v]
perlin_get(perlin, x, y, random) ==
    LET key == <<x, y>>
    IN  IF Remembered(perlin, key)
        THEN [perlin |-> perlin, value |-> perlin.memory[key]]
        ELSE LET xf == Floor(x)
                 yf == Floor(y)
                 tl == dot_prod_grid(perlin, x, y, xf, yf, random)
                 tr == dot_prod_grid(tl.perlin, x, y, xf + 1, yf, random)
                 bl == dot_prod_grid(tr.perlin, x, y, xf, yf + 1, random)
                 br == dot_prod_grid(bl.perlin, x, y, xf + 1, yf + 1, random)
                 xt == interp(x - Num(xf), tl.value, tr.value)
                 xb == interp(x - Num(xf), bl.value, br.value)
                 v == interp(y - Num(yf), xt, xb)
             IN  [perlin |-> [br.perlin EXCEPT !.memory = (key :> v) @@ @],
                  value |-> v]

\* the octave loop without amp *= 0.5
RECURSIVE noiseOctaves_constantAmplitude(_, _, _, _, _, _, _, _, _)
noiseOctaves_constantAmplitude(perlin, x, y, value, freq, amp, octave, octaves, random) ==
    IF octave < octaves
    THEN LET got == perlin_get(perlin, x * freq, y * freq, random)
         IN  noiseOctaves_constantAmplitude(
                 got.perlin, x, y, value + Mul(got.value, amp),
                 freq * 2, amp, octave + 1, octaves, random)
    ELSE [perlin |-> perlin, value |-> value]

\* applyPerlinNoise, the octave loop of one cell:
\* [perlin |-> the object after the loop, value |-> the sum]
RECURSIVE noiseOctaves(_, _, _, _, _, _, _, _, _)
noiseOctaves(perlin, x, y, value, freq, amp, octave, octaves, random) ==
    IF octave < octaves
    THEN LET got == perlin_get(perlin, x * freq, y * freq, random)
         IN  noiseOctaves(got.perlin, x, y, value + Mul(got.value, amp),
                          freq * 2, Mul(amp, Scale \div 2),
                          octave + 1, octaves, random)
    ELSE [perlin |-> perlin, value |-> value]

\* applyPerlinNoise, inner loop over x: [perlin, h] after the row
RECURSIVE noiseRow(_, _, _, _, _, _, _, _)
noiseRow(perlin, h, x, y, scale, amplitude, octaves, random) ==
    IF x < h.width
    THEN LET cell == noiseOctaves(perlin, x, y, 0, scale, amplitude, 0, octaves,
                                  random)
         IN  noiseRow(cell.perlin, add(h, x, y, cell.value), x + 1, y,
                      scale, amplitude, octaves, random)
    ELSE [perlin |-> perlin, h |-> h]

\* applyPerlinNoise, outer loop over y
RECURSIVE noiseRows(_, _, _, _, _, _, _)
noiseRows(perlin, h, y, scale, amplitude, octaves, random) ==
    IF y < h.height
    THEN LET row == noiseRow(perlin, h, 0, y, scale, amplitude, octaves, random)
         IN  noiseRows(row.perlin, row.h, y + 1, scale, amplitude, octaves, random)
    ELSE [perlin |-> perlin, h |-> h]

\* Heightmap.applyPerlinNoise(scale, amplitude, octaves): the Heightmap after
\* it; random holds what the calls of Math.random() yield: the seed of the
\* new PerlinNoise, and the gradient of each grid corner
applyPerlinNoise(h, scale, amplitude, octaves, random) ==
    noiseRows(PerlinNoise(random.seed), h, 0, scale, amplitude, octaves,
              random.gradient).h

\* generateProceduralHeightmap(width, height), first half: the new
\* Heightmap after heightmap.applyPerlinNoise(0.05, 8, 4)
generateNoise(width, height, random) ==
    applyPerlinNoise(Heightmap(width, height), 50, Num(8), 4, random)

\* generateProceduralHeightmap(width, height), second half: the flat areas
\* drawn on the heightmap, which is then returned
generateFlatAreas(heightmap) ==
    LET square1 == drawRectangle(heightmap, 50, 50, 40, 40, Num(2))
        square2 == drawRectangle(square1, 170, 170, 35, 35, Num(2))
        rectangle1 == drawRectangle(square2, 100, 30, 60, 30, 2500)
        rectangle2 == drawRectangle(rectangle1, 30, 150, 50, 40, 1800)
    IN  drawCircle(rectangle2, Num(128), Num(128), Num(25), Num(3))

generateProceduralHeightmap(width, height, random) ==
    generateFlatAreas(generateNoise(width, height, random))

-----------------------------------------------------------------------------
(* createTerrainMesh(gl, heightmap) *)

\* the offset that puts the first and the last column at equal distance
\* from 0: -(width - 1) / 2
offsetX_betweenSamples(h) == (-Num(h.width - 1)) \div 2

offsetX(h) == (-Num(h.width)) \div 2

offsetZ(h) == (-Num(h.height)) \div 2

\* vertex generation, inner loop: for (x = 0; x < width; x++) vertices.push(...)
RECURSIVE vertexRow(_, _, _, _)
vertexRow(vertices, h, x, z) ==
    IF x < h.width
    THEN vertexRow(
             Append(vertices,
                    [pos |-> <<Num(x) + offsetX(h), get(h, x, z), Num(z) + offsetZ(h)>>,
                     normal |-> <<0, Num(1), 0>>]),
             h, x + 1, z)
    ELSE vertices

\* vertex generation, outer loop: for (z = 0; z < height; z++)
RECURSIVE vertexRows(_, _, _)
vertexRows(vertices, h, z) ==
    IF z < h.height
    THEN vertexRows(vertexRow(vertices, h, 0, z), h, z + 1)
    ELSE vertices

generateVertices(h) == vertexRows(<<>>, h, 0)

\* a quad split along its other diagonal, topLeft-bottomRight
quadIndices_otherDiagonal(width, x, z) ==
    LET topLeft == z * width + x
        topRight == topLeft + 1
        bottomLeft == (z + 1) * width + x
        bottomRight == bottomLeft + 1
    IN  <<topLeft, bottomLeft, bottomRight, topLeft, bottomRight, topRight>>

\* a quad whose second triangle is pushed in the opposite winding
quadIndices_secondFlipped(width, x, z) ==
    LET topLeft == z * width + x
        topRight == topLeft + 1
        bottomLeft == (z + 1) * width + x
        bottomRight == bottomLeft + 1
    IN  <<topLeft, bottomLeft, topRight, topRight, bottomRight, bottomLeft>>

\* a quad that pushes its first triangle only
quadIndices_oneTriangle(width, x, z) ==
    <<z * width + x, (z + 1) * width + x, z * width + x + 1>>

\* the first triangle of the quad listing its top-left vertex twice
quadIndices_repeatsCorner(width, x, z) ==
    LET topLeft == z * width + x
        topRight == topLeft + 1
        bottomLeft == (z + 1) * width + x
        bottomRight == bottomLeft + 1
    IN  <<topLeft, bottomLeft, topLeft, topRight, bottomLeft, bottomRight>>

\* the six indices pushed for the quad whose top-left sample is (x, z)
quadIndices(width, x, z) ==
    LET topLeft == z * width + x
        topRight == topLeft + 1
        bottomLeft == (z + 1) * width + x
        bottomRight == bottomLeft + 1
    IN  <<topLeft, bottomLeft, topRight, topRight, bottomLeft, bottomRight>>

\* index generation, inner loop: for (x = 0; x < width - 1; x++)
RECURSIVE indexRow(_, _, _, _)
indexRow(indices, h, x, z) ==
    IF x < h.width - 1
    THEN indexRow(indices \o quadIndices(h.width, x, z), h, x + 1, z)
    ELSE indices

\* index generation, outer loop: for (z = 0; z < height - 1; z++)
RECURSIVE indexRows(_, _, _)
indexRows(indices, h, z) ==
    IF z < h.height - 1
    THEN indexRows(indexRow(indices, h, 0, z), h, z + 1)
    ELSE indices

\* index generation that starts from the indices of the previous call, as
\* with an indices array that is not local to the call
generateIndices_keepsArray(h) == indexRows(mesh.ibo, h, 0)

generateIndices(h) == indexRows(<<>>, h, 0)

\* the Heightmap after createTerrainMesh with the cells zeroed
heightmapAfterBuild_zeroed(h) == [h EXCEPT !.data = [i \in DOMAIN @ |-> 0]]

\* the Heightmap object after createTerrainMesh(gl, heightmap): the function
\* reads heightmap.width, heightmap.height and heightmap.get(x, z), and calls
\* no method that writes
heightmapAfterBuild(h) == h

\* the cross product with its operands exchanged: (v2 - v0) x (v1 - v0)
faceNormal_flipped(v0, v1, v2) ==
    LET edge1 == <<v1[1] - v0[1], v1[2] - v0[2], v1[3] - v0[3]>>
        edge2 == <<v2[1] - v0[1], v2[2] - v0[2], v2[3] - v0[3]>>
    IN  <<Mul(edge2[2], edge1[3]) - Mul(edge2[3], edge1[2]),
          Mul(edge2[3], edge1[1]) - Mul(edge2[1], edge1[3]),
          Mul(edge2[1], edge1[2]) - Mul(edge2[2], edge1[1])>>

\* the face normal of the triangle v0 v1 v2: (v1 - v0) x (v2 - v0)
faceNormal(v0, v1, v2) ==
    LET edge1 == <<v1[1] - v0[1], v1[2] - v0[2], v1[3] - v0[3]>>
        edge2 == <<v2[1] - v0[1], v2[2] - v0[2], v2[3] - v0[3]>>
    IN  <<Mul(edge1[2], edge2[3]) - Mul(edge1[3], edge2[2]),
          Mul(edge1[3], edge2[1]) - Mul(edge1[1], edge2[3]),
          Mul(edge1[1], edge2[2]) - Mul(edge1[2], edge2[1])>>

\* the accumulator assigned instead of added to: normals[i][j] = normal[j]
VecAdd_assigns(a, b) == b

\* normals[i][j] += normal[j] for j = 0, 1, 2
VecAdd(a, b) == <<a[1] + b[1], a[2] + b[2], a[3] + b[3]>>

\* normal accumulation that adds the face normal to the first vertex of
\* each triangle only
RECURSIVE accumulateNormals_firstOnly(_, _, _, _)
accumulateNormals_firstOnly(normals, vertices, indices, i) ==
    IF i < Len(indices)
    THEN LET i0 == indices[i + 1]
             i1 == indices[i + 2]
             i2 == indices[i + 3]
             normal == faceNormal(vertices[i0 + 1].pos, vertices[i1 + 1].pos,
                                  vertices[i2 + 1].pos)
         IN  accumulateNormals_firstOnly(
                 [normals EXCEPT ![i0 + 1] = VecAdd(@, normal)],
                 vertices, indices, i + 3)
    ELSE normals

\* normal accumulation: for (i = 0; i < indices.length; i += 3); the arrays
\* of the code are indexed from 0, the sequences here from 1
RECURSIVE accumulateNormals(_, _, _, _)
accumulateNormals(normals, vertices, indices, i) ==
    IF i < Len(indices)
    THEN LET i0 == indices[i + 1]
             i1 == indices[i + 2]
             i2 == indices[i + 3]
             normal == faceNormal(vertices[i0 + 1].pos, vertices[i1 + 1].pos,
                                  vertices[i2 + 1].pos)
         IN  accumulateNormals(
                 [normals EXCEPT ![i0 + 1] = VecAdd(@, normal),
                                 ![i1 + 1] = VecAdd(@, normal),
                                 ![i2 + 1] = VecAdd(@, normal)],
                 vertices, indices, i + 3)
    ELSE normals

\* the accumulated, not yet normalized, normals of all vertices
accumulatedNormals(vertices, indices) ==
    accumulateNormals([i \in 1..Len(vertices) |-> <<0, 0, 0>>], vertices, indices, 0)

\* normalization that keeps a sum of length > 0 as it is, undivided
normalize_notDivided(n) ==
    LET len == Sqrt(Mul(n[1], n[1]) + Mul(n[2], n[2]) + Mul(n[3], n[3]))
    IN  IF len > 0 THEN n ELSE <<0, Num(1), 0>>

\* normalization without the fallback: a zero sum stays the zero vector
normalize_noFallback(n) ==
    LET len == Sqrt(Mul(n[1], n[1]) + Mul(n[2], n[2]) + Mul(n[3], n[3]))
    IN  IF len > 0 THEN <<Div(n[1], len), Div(n[2], len), Div(n[3], len)>>
        ELSE <<0, 0, 0>>

\* one step of "Normalize all normals"
normalize(n) ==
    LET len == Sqrt(Mul(n[1], n[1]) + Mul(n[2], n[2]) + Mul(n[3], n[3]))
    IN  IF len > 0 THEN <<Div(n[1], len), Div(n[2], len), Div(n[3], len)>>
        ELSE <<0, Num(1), 0>>

\* the vertices after the normal pass: vertices[i].normal = normals[i]
smoothVertices(vertices, indices) ==
    LET normals == accumulatedNormals(vertices, indices)
    IN  [i \in 1..Len(normals) |->
            [vertices[i] EXCEPT !.normal = normalize(normals[i])]]

\* interleaving that takes the texture coordinates from the positions as
\* they are, without subtracting the offsets
RECURSIVE interleave_uvFromPosition(_, _, _, _)
interleave_uvFromPosition(vertexData, vertices, h, i) ==
    IF i < Len(vertices)
    THEN LET v == vertices[i + 1]
         IN  interleave_uvFromPosition(
                 vertexData \o
                     <<v.pos[1], v.pos[2], v.pos[3],
                       v.normal[1], v.normal[2], v.normal[3],
                       Div(v.pos[1], Num(h.width)),
                       Div(v.pos[3], Num(h.height))>>,
                 vertices, h, i + 1)
    ELSE vertexData

\* interleaving: position(3) + normal(3) + texCoord(2) per vertex
RECURSIVE interleave(_, _, _, _)
interleave(vertexData, vertices, h, i) ==
    IF i < Len(vertices)
    THEN LET v == vertices[i + 1]
         IN  interleave(
                 vertexData \o
                     <<v.pos[1], v.pos[2], v.pos[3],
                       v.normal[1], v.normal[2], v.normal[3],
                       Div(v.pos[1] - offsetX(h), Num(h.width)),
                       Div(v.pos[3] - offsetZ(h), Num(h.height))>>,
                 vertices, h, i + 1)
    ELSE vertexData

\* the returned object; vbo and ibo stand for the contents uploaded to them
createTerrainMesh(h) ==
    LET indices == generateIndices(h)
        vertices == smoothVertices(generateVertices(h), indices)
    IN  [vbo |-> interleave(<<>>, vertices, h, 0),
         ibo |-> indices,
         indexCount |-> Len(indices),
         vertexCount |-> Len(vertices)]

\* reading the uploaded vertex buffer back, vertex i counted from 0
VertexPos(m, i) == <<m.vbo[8 * i + 1], m.vbo[8 * i + 2], m.vbo[8 * i + 3]>>

VertexNormal(m, i) == <<m.vbo[8 * i + 4], m.vbo[8 * i + 5], m.vbo[8 * i + 6]>>

-----------------------------------------------------------------------------
(* The program: a Heightmap is constructed and populated, one of its       *)
(* methods is called, and the terrain mesh is built from it.               *)

\* the widths and heights tried: all up to MaxDim, and the 4 x 4 grid of the
\* end-to-end scenario
Dims == ((0..MaxDim) \X (0..MaxDim)) \cup {<<4, 4>>}

\* the heights a populated Heightmap starts with: cell (x, y) holds
\* r[1] + r[2] * x + r[3] * y + r[4] * x * y  (flat at 0, flat at 1.0, a
\* tilted plane, a saddle); each is a state that calls of set() produce
Reliefs == {<<0, 0, 0, 0>>, <<Num(1), 0, 0, 0>>,
            <<0, 500, 250, 0>>, <<500, -250, 0, 125>>}

Populated(width, height, r) ==
    [Heightmap(width, height) EXCEPT
        !.data = [i \in DOMAIN @ |->
                     LET x == i % width
                         y == i \div width
                     IN  r[1] + r[2] * x + r[3] * y + r[4] * x * y]]

\* the values written and added by the calls tried
HeightValues == {Num(2), -Num(1)}

\* numbers k / 2 for k in lo..hi
Halves(lo, hi) == {(k * Scale) \div 2 : k \in lo..hi}

NoMesh == [vbo |-> <<>>, ibo |-> <<>>, indexCount |-> 0, vertexCount |-> 0]

NoReduction ==
    [mode |-> "none", normals |-> <<>>, todo |-> {}, worker |-> <<>>,
     atomicResult |-> <<>>]

\* new TextureLoader(gl): this.cache = new Map(); the Map is the sequence
\* of its entries [key, texture] in the order they were set
TextureLoader == [cache |-> <<>>]

\* new MattePaintingManager(gl); null is 0, textures are numbered from 1
MattePaintingManager ==
    [textureLoader |-> TextureLoader, skyboxTexture |-> 0, skyboxCubemap |-> 0,
     useProcedural |-> TRUE, useCubemap |-> FALSE]

\* no texture created, no Image requested, no call made, no callback run
NoImages ==
    [textures |-> 0, requests |-> <<>>, calls |-> <<>>, invoked |-> <<>>,
     completed |-> <<>>]

NoCount == [width |-> 0, height |-> 0, z |-> 0, x |-> 0, vertices |-> 0, indices |-> 0]

Init ==
    /\ \E d \in Dims, r \in Reliefs : hm = Populated(d[1], d[2], r)
    /\ edit = [op |-> "none", args |-> <<>>, before |-> hm]
    /\ result = 0
    /\ mesh = NoMesh
    /\ pc = "new"
    /\ count = NoCount
    /\ runs = <<>>
    /\ noise = PerlinNoise(0)
    /\ samples = <<>>
    /\ builds = <<>>
    /\ stamps = <<>>
    /\ reduction = NoReduction
    /\ mattePaintingManager = MattePaintingManager
    /\ images = NoImages

Called(op, args) == [op |-> op, args |-> args, before |-> hm]

Get ==
    /\ pc = "new"
    /\ \E x \in -1..hm.width, y \in -1..hm.height :
          /\ result' = get(hm, x, y)
          /\ edit' = Called("get", <<x, y>>)
    /\ pc' = "edited"
    /\ UNCHANGED <<hm, mesh, count, runs, noise, samples,
                 builds, stamps, reduction,
                 mattePaintingManager, images>>

Set ==
    /\ pc = "new"
    /\ \E x \in -1..hm.width, y \in -1..hm.height, v \in HeightValues :
          /\ hm' = set(hm, x, y, v)
          /\ edit' = Called("set", <<x, y, v>>)
    /\ pc' = "edited"
    /\ UNCHANGED <<result, mesh, count, runs, noise, samples,
                 builds, stamps, reduction,
                 mattePaintingManager, images>>

Add ==
    /\ pc = "new"
    /\ \E x \in -1..hm.width, y \in -1..hm.height, v \in HeightValues :
          /\ hm' = add(hm, x, y, v)
          /\ edit' = Called("add", <<x, y, v>>)
    /\ pc' = "edited"
    /\ UNCHANGED <<result, mesh, count, runs, noise, samples,
                 builds, stamps, reduction,
                 mattePaintingManager, images>>

DrawRectangle ==
    /\ pc = "new"
    /\ \E x \in -1..hm.width, y \in -1..hm.height,
          width \in 0..MaxRect, height \in 0..MaxRect, v \in HeightValues :
          /\ hm' = drawRectangle(hm, x, y, width, height, v)
          /\ edit' = Called("drawRectangle", <<x, y, width, height, v>>)
    /\ pc' = "edited"
    /\ UNCHANGED <<result, mesh, count, runs, noise, samples,
                 builds, stamps, reduction,
                 mattePaintingManager, images>>

DrawCircle ==
    /\ pc = "new"
    /\ \E centerX \in Halves(0, hm.width), centerY \in Halves(0, hm.height),
          radius \in Halves(-2, MaxRadius2), v \in HeightValues :
          /\ hm' = drawCircle(hm, centerX, centerY, radius, v)
          /\ edit' = Called("drawCircle", <<centerX, centerY, radius, v>>)
    /\ pc' = "edited"
    /\ UNCHANGED <<result, mesh, count, runs, noise, samples,
                 builds, stamps, reduction,
                 mattePaintingManager, images>>

CreateTerrainMesh ==
    /\ pc \in {"new", "edited"}
    /\ mesh' = createTerrainMesh(hm)
    /\ hm' = heightmapAfterBuild(hm)
    /\ pc' = "built"
    /\ UNCHANGED <<edit, result, count, runs, noise, samples, builds, stamps, reduction,
                   mattePaintingManager, images>>

Next == Get \/ Set \/ Add \/ DrawRectangle \/ DrawCircle \/ CreateTerrainMesh

Spec == Init /\ [][Next]_vars

-----------------------------------------------------------------------------
(* The program building the terrain mesh twice, with a call of set on the   *)
(* Heightmap between the two builds or without one.                         *)

\* createTerrainMesh(gl, heightmap); builds records the Heightmap passed,
\* the Heightmap after the call and the mesh returned
Build ==
    /\ pc \in {"new", "built", "edited"}
    /\ Len(builds) < 2
    /\ mesh' = createTerrainMesh(hm)
    /\ hm' = heightmapAfterBuild(hm)
    /\ builds' = Append(builds, [heightmap |-> hm, after |-> hm',
                                 mesh |-> mesh'])
    /\ pc' = "built"
    /\ UNCHANGED <<edit, result, count, runs, noise, samples, stamps, reduction,
                   mattePaintingManager, images>>

\* heightmap.set(x, y, v) after the first build
SetBetweenBuilds ==
    /\ pc = "built"
    /\ Len(builds) = 1
    /\ \E x \in -1..hm.width, y \in -1..hm.height, v \in HeightValues :
          /\ hm' = set(hm, x, y, v)
          /\ edit' = Called("set", <<x, y, v>>)
    /\ pc' = "edited"
    /\ UNCHANGED <<result, mesh, count, runs, noise, samples, builds, stamps, reduction,
                   mattePaintingManager, images>>

NextBuilds == Build \/ SetBetweenBuilds

SpecBuilds == Init /\ [][NextBuilds]_vars

-----------------------------------------------------------------------------
(* The program drawing two flat areas, one after the other, on a Heightmap  *)
(* whose cells hold different heights.                                      *)

\* largest width and height of the grids drawn on
MaxStampDim == 2

StampDims == (1..MaxStampDim) \X (1..MaxStampDim)

\* the tilted plane of Reliefs, lowered so that no cell holds a value drawn
StampRelief == <<-Num(5), 500, 250, 0>>

\* widths and heights of the rectangles, and radii of the circles, drawn
StampSizes == {1, 2}

StampRadii == {-Num(1), -500, 500, Num(1)}

\* the first call draws at height 2.0, the second at -1.0
StampValue(n) == IF n = 0 THEN Num(2) ELSE -Num(1)

InitStamps ==
    /\ \E d \in StampDims : hm = Populated(d[1], d[2], StampRelief)
    /\ edit = [op |-> "none", args |-> <<>>, before |-> hm]
    /\ result = 0
    /\ mesh = NoMesh
    /\ pc = "new"
    /\ count = NoCount
    /\ runs = <<>>
    /\ noise = PerlinNoise(0)
    /\ samples = <<>>
    /\ builds = <<>>
    /\ stamps = <<>>
    /\ reduction = NoReduction
    /\ mattePaintingManager = MattePaintingManager
    /\ images = NoImages

\* heightmap.drawRectangle(x, y, width, height, heightValue)
StampRectangle ==
    /\ Len(stamps) < 2
    /\ \E x \in -1..(hm.width - 1), y \in -1..(hm.height - 1),
          width \in StampSizes, height \in StampSizes :
          LET args == <<x, y, width, height, StampValue(Len(stamps))>>
          IN  /\ hm' = drawRectangle(hm, x, y, width, height, args[5])
              /\ stamps' = Append(stamps, [op |-> "drawRectangle", args |-> args])
    /\ pc' = "edited"
    /\ UNCHANGED <<edit, result, mesh, count, runs, noise, samples, builds, reduction,
                   mattePaintingManager, images>>

\* heightmap.drawCircle(centerX, centerY, radius, heightValue)
StampCircle ==
    /\ Len(stamps) < 2
    /\ \E centerX \in Halves(0, 2 * (hm.width - 1)),
          centerY \in Halves(0, 2 * (hm.height - 1)), radius \in StampRadii :
          LET args == <<centerX, centerY, radius, StampValue(Len(stamps))>>
          IN  /\ hm' = drawCircle(hm, centerX, centerY, radius, args[4])
              /\ stamps' = Append(stamps, [op |-> "drawCircle", args |-> args])
    /\ pc' = "edited"
    /\ UNCHANGED <<edit, result, mesh, count, runs, noise, samples, builds, reduction,
                   mattePaintingManager, images>>

NextStamps == StampRectangle \/ StampCircle

SpecStamps == InitStamps /\ [][NextStamps]_vars

-----------------------------------------------------------------------------
(* createTerrainMesh on the terrain of main.js, run push by push.  The grid *)
(* is too large to keep the arrays themselves: count holds the locals       *)
(* width, height, the loop counters z and x, and of the arrays vertices and *)
(* indices their lengths, each push adding what it pushes.  The heights are *)
(* left out of hm: the lengths do not depend on them.                       *)

\* generateProceduralHeightmap(256, 256) in main.js
TerrainSize == 256

InitCount ==
    /\ hm = [width |-> TerrainSize, height |-> TerrainSize, data |-> <<>>]
    /\ edit = [op |-> "none", args |-> <<>>, before |-> hm]
    /\ result = 0
    /\ mesh = NoMesh
    /\ pc = "vertexLoop"
    /\ count = [NoCount EXCEPT !.width = hm.width, !.height = hm.height]
    /\ runs = <<>>
    /\ noise = PerlinNoise(0)
    /\ samples = <<>>
    /\ builds = <<>>
    /\ stamps = <<>>
    /\ reduction = NoReduction
    /\ mattePaintingManager = MattePaintingManager
    /\ images = NoImages

\* for (z = 0; z < height; z++) for (x = 0; x < width; x++) vertices.push(...):
\* one test of a loop condition, and the push or the step that follows it
VertexLoop ==
    /\ pc = "vertexLoop"
    /\ IF count.z < count.height
       THEN /\ count' = IF count.x < count.width
                        THEN [count EXCEPT !.vertices = @ + 1, !.x = @ + 1]
                        ELSE [count EXCEPT !.z = @ + 1, !.x = 0]
            /\ pc' = "vertexLoop"
       ELSE /\ count' = [count EXCEPT !.z = 0, !.x = 0]
            /\ pc' = "indexLoop"
    /\ UNCHANGED <<hm, edit, result, mesh, runs, noise, samples,
                 builds, stamps, reduction,
                 mattePaintingManager, images>>

\* for (z = 0; z < height - 1; z++) for (x = 0; x < width - 1; x++)
\*     indices.push(...); indices.push(...)
IndexLoop ==
    /\ pc = "indexLoop"
    /\ IF count.z < count.height - 1
       THEN /\ count' = IF count.x < count.width - 1
                        THEN [count EXCEPT
                                 !.indices = @ + Len(quadIndices(count.width,
                                                                 count.x, count.z)),
                                 !.x = @ + 1]
                        ELSE [count EXCEPT !.z = @ + 1, !.x = 0]
            /\ pc' = "indexLoop"
       ELSE /\ count' = count
            /\ pc' = "return"
    /\ UNCHANGED <<hm, edit, result, mesh, runs, noise, samples,
                 builds, stamps, reduction,
                 mattePaintingManager, images>>

\* return { indexCount: indices.length, vertexCount: vertices.length }
ReturnCounts ==
    /\ pc = "return"
    /\ mesh' = [NoMesh EXCEPT !.indexCount = count.indices,
                              !.vertexCount = count.vertices]
    /\ pc' = "returned"
    /\ UNCHANGED <<hm, edit, result, count, runs, noise, samples,
                 builds, stamps, reduction,
                 mattePaintingManager, images>>

NextCount == VertexLoop \/ IndexLoop \/ ReturnCounts

SpecCount == InitCount /\ [][NextCount]_vars

-----------------------------------------------------------------------------
(* The program calling generateProceduralHeightmap twice.  A call is two    *)
(* steps, the noise pass and the flat areas; runs holds what the completed  *)
(* calls returned.                                                          *)

\* largest width and height passed to generateProceduralHeightmap
MaxGenDim == 2

\* the grid corners whose gradients a width x height noise pass can ask for:
\* samples go up to (n - 1) * scale * 2^(octaves - 1) = (n - 1) * 0.4
NoiseCorner(n) == IF n = 0 THEN 0 ELSE Floor((n - 1) * 400) + 1

NoiseCorners(width, height) ==
    (0..NoiseCorner(width)) \X (0..NoiseCorner(height))

\* what the calls of Math.random() during one noise pass can yield: the seed
\* of the new PerlinNoise, and the draw made for each grid corner
RandomDraws(width, height) ==
    [seed : Randoms, gradient : [NoiseCorners(width, height) -> Randoms]]

InitGen ==
    /\ hm = Heightmap(0, 0)
    /\ edit = [op |-> "none", args |-> <<>>, before |-> hm]
    /\ result = 0
    /\ mesh = NoMesh
    /\ pc = "new"
    /\ count = NoCount
    /\ runs = <<>>
    /\ noise = PerlinNoise(0)
    /\ samples = <<>>
    /\ builds = <<>>
    /\ stamps = <<>>
    /\ reduction = NoReduction
    /\ mattePaintingManager = MattePaintingManager
    /\ images = NoImages

\* const heightmap = new Heightmap(width, height);
\* heightmap.applyPerlinNoise(0.05, 8, 4)
GenerateNoise ==
    /\ pc = "new"
    /\ Len(runs) < 2
    /\ \E width \in 0..MaxGenDim, height \in 0..MaxGenDim :
          \E random \in RandomDraws(width, height) :
              hm' = generateNoise(width, height, random)
    /\ pc' = "noise"
    /\ UNCHANGED <<edit, result, mesh, count, runs, noise, samples,
                 builds, stamps, reduction,
                 mattePaintingManager, images>>

\* the drawRectangle and drawCircle calls; return heightmap
GenerateFlatAreas ==
    /\ pc = "noise"
    /\ hm' = generateFlatAreas(hm)
    /\ edit' = Called("generateFlatAreas", <<>>)
    /\ runs' = Append(runs, hm')
    /\ pc' = "new"
    /\ UNCHANGED <<result, mesh, count, noise, samples, builds, stamps, reduction,
                   mattePaintingManager, images>>

NextGen == GenerateNoise \/ GenerateFlatAreas

SpecGen == InitGen /\ [][NextGen]_vars

-----------------------------------------------------------------------------
(* The program calling generateProceduralHeightmap once, on grids up to the *)
(* smallest one that reaches a flat area.                                   *)

\* largest width and height of the small grids
MaxPadDim == 2

\* the smallest grid with a cell in a flat area: cell (50, 50), the corner
\* of the first square
PadGrid == <<51, 51>>

\* a single row, a single column and a double row whose noise samples reach
\* past the second grid corner
LongGrids == {<<6, 1>>, <<1, 6>>, <<6, 2>>}

PadDims == ((0..MaxPadDim) \X (0..MaxPadDim)) \cup LongGrids \cup {PadGrid}

\* the draws of Math.random() tried: all of them on the small grids; on
\* PadGrid the same draw for every grid corner
PadDraws(width, height) ==
    IF <<width, height>> = PadGrid
    THEN {[seed |-> 0, gradient |-> [c \in NoiseCorners(width, height) |-> r]] :
             r \in Randoms}
    ELSE RandomDraws(width, height)

\* const heightmap = new Heightmap(width, height);
\* heightmap.applyPerlinNoise(0.05, 8, 4)
GenerateTerrainNoise ==
    /\ pc = "new"
    /\ runs = <<>>
    /\ \E d \in PadDims :
          \E random \in PadDraws(d[1], d[2]) :
              hm' = generateNoise(d[1], d[2], random)
    /\ pc' = "noise"
    /\ UNCHANGED <<edit, result, mesh, count, runs, noise, samples,
                 builds, stamps, reduction,
                 mattePaintingManager, images>>

NextPads == GenerateTerrainNoise \/ GenerateFlatAreas

SpecPads == InitGen /\ [][NextPads]_vars

-----------------------------------------------------------------------------
(* The program calling applyPerlinNoise(0.05, amplitude, octaves) on a      *)
(* populated Heightmap; noise holds the PerlinNoise object of the call as   *)
(* the pass leaves it.                                                      *)

\* largest number of octaves
MaxOctaves == 4

\* the amplitudes tried: the 8 of generateProceduralHeightmap, and 1
Amplitudes == {Num(8), Num(1)}

\* 2^k
RECURSIVE Pow2(_)
Pow2(k) == IF k = 0 THEN 1 ELSE 2 * Pow2(k - 1)

\* the grid corners a pass over n samples with the given octaves can ask
\* for: samples go up to (n - 1) * 0.05 * 2^(octaves - 1)
OctaveCorner(n, octaves) ==
    IF n = 0 \/ octaves = 0 THEN 0
    ELSE Floor((n - 1) * 50 * Pow2(octaves - 1)) + 1

OctaveCorners(width, height, octaves) ==
    (0..OctaveCorner(width, octaves)) \X (0..OctaveCorner(height, octaves))

InitOctaves ==
    /\ \E width \in 0..MaxGenDim, height \in 0..MaxGenDim :
          hm = Populated(width, height, <<0, 500, 250, 0>>)
    /\ edit = [op |-> "none", args |-> <<>>, before |-> hm]
    /\ result = 0
    /\ mesh = NoMesh
    /\ pc = "new"
    /\ count = NoCount
    /\ runs = <<>>
    /\ noise = PerlinNoise(0)
    /\ samples = <<>>
    /\ builds = <<>>
    /\ stamps = <<>>
    /\ reduction = NoReduction
    /\ mattePaintingManager = MattePaintingManager
    /\ images = NoImages

\* heightmap.applyPerlinNoise(0.05, amplitude, octaves)
ApplyPerlinNoise ==
    /\ pc = "new"
    /\ \E amplitude \in Amplitudes, octaves \in 0..MaxOctaves, seed \in Randoms :
          \E gradient \in [OctaveCorners(hm.width, hm.height, octaves) -> Randoms] :
              LET pass == noiseRows(PerlinNoise(seed), hm, 0, 50, amplitude,
                                    octaves, gradient)
              IN  /\ hm' = pass.h
                  /\ noise' = pass.perlin
                  /\ edit' = Called("applyPerlinNoise", <<50, amplitude, octaves>>)
    /\ pc' = "noise"
    /\ UNCHANGED <<result, mesh, count, runs, samples, builds, stamps, reduction,
                   mattePaintingManager, images>>

NextOctaves == ApplyPerlinNoise

SpecOctaves == InitOctaves /\ [][NextOctaves]_vars

-----------------------------------------------------------------------------
(* The normal accumulation of createTerrainMesh run by workers: the body   *)
(* of the loop "for (i = 0; i < indices.length; i += 3)" is the unit of     *)
(* work, a worker takes any triangle not yet taken, computes its face       *)
(* normal and adds it to the accumulators of the triangle's three           *)
(* vertices. The pass is run twice over the same mesh: first with each      *)
(* addition to a vertex accumulator atomic, then with each addition a       *)
(* read followed by a write. The repository runs the loop on one thread;    *)
(* the workers and their two disciplines follow the specification's         *)
(* section on concurrency.                                                  *)

\* number of workers
MaxWorkers == 2

Workers == 1..MaxWorkers

\* the grids accumulated: one quad, and two quads side by side
WorkerDims == {<<2, 2>>, <<3, 2>>}

Idle == [t |-> -1, k |-> 0, held |-> <<>>]

\* the face normal of triangle t of the mesh of h, as the loop body
\* computes it
triangleNormal(h, t) ==
    LET vertices == generateVertices(h)
        indices == generateIndices(h)
    IN  faceNormal(vertices[indices[3 * t + 1] + 1].pos,
                   vertices[indices[3 * t + 2] + 1].pos,
                   vertices[indices[3 * t + 3] + 1].pos)

\* the vertex that the k-th addition of triangle t goes to: i0, i1, i2
triangleVertex(h, t, k) == generateIndices(h)[3 * t + k]

ZeroNormals(h) == [i \in 1..(h.width * h.height) |-> <<0, 0, 0>>]

AllTriangles(h) == 0..((Len(generateIndices(h)) \div 3) - 1)

InitWorkers ==
    /\ \E d \in WorkerDims, r \in {<<0, 500, 250, 0>>, <<500, -250, 0, 125>>} :
          hm = Populated(d[1], d[2], r)
    /\ edit = [op |-> "none", args |-> <<>>, before |-> hm]
    /\ result = 0
    /\ mesh = NoMesh
    /\ pc = "new"
    /\ count = NoCount
    /\ runs = <<>>
    /\ noise = PerlinNoise(0)
    /\ samples = <<>>
    /\ builds = <<>>
    /\ stamps = <<>>
    /\ reduction = [mode |-> "atomic", normals |-> ZeroNormals(hm),
                    todo |-> AllTriangles(hm),
                    worker |-> [w \in Workers |-> Idle],
                    atomicResult |-> <<>>]
    /\ mattePaintingManager = MattePaintingManager
    /\ images = NoImages

\* the worker's position after its k-th addition
AfterAddition(job) ==
    IF job.k = 3 THEN Idle ELSE [job EXCEPT !.k = @ + 1, !.held = <<>>]

\* an idle worker takes a triangle that no worker has taken
TakeTriangle(w) ==
    /\ reduction.mode \in {"atomic", "racy"}
    /\ reduction.worker[w].k = 0
    /\ \E t \in reduction.todo :
          reduction' = [reduction EXCEPT
                            !.todo = @ \ {t},
                            !.worker[w] = [t |-> t, k |-> 1, held |-> <<>>]]
    /\ UNCHANGED <<hm, edit, result, mesh, pc, count, runs, noise, samples,
                   builds, stamps,
                   mattePaintingManager, images>>

\* normals[i][j] += normal[j] for the three j, as one indivisible step
AtomicAdd(w) ==
    LET job == reduction.worker[w]
    IN  /\ reduction.mode = "atomic"
        /\ job.k \in 1..3
        /\ reduction' = [reduction EXCEPT
                            !.normals[triangleVertex(hm, job.t, job.k) + 1] =
                                VecAdd(@, triangleNormal(hm, job.t)),
                            !.worker[w] = AfterAddition(job)]
        /\ UNCHANGED <<hm, edit, result, mesh, pc, count, runs, noise,
                       samples, builds, stamps,
                       mattePaintingManager, images>>

\* the read of normals[i] that begins an addition that is not atomic
ReadAccumulator(w) ==
    LET job == reduction.worker[w]
    IN  /\ reduction.mode = "racy"
        /\ job.k \in 1..3
        /\ job.held = <<>>
        /\ reduction' = [reduction EXCEPT
                            !.worker[w].held =
                                reduction.normals[triangleVertex(hm, job.t, job.k) + 1]]
        /\ UNCHANGED <<hm, edit, result, mesh, pc, count, runs, noise,
                       samples, builds, stamps,
                       mattePaintingManager, images>>

\* the write that ends it: normals[i] = the value read + normal
WriteAccumulator(w) ==
    LET job == reduction.worker[w]
    IN  /\ reduction.mode = "racy"
        /\ job.k \in 1..3
        /\ job.held # <<>>
        /\ reduction' = [reduction EXCEPT
                            !.normals[triangleVertex(hm, job.t, job.k) + 1] =
                                VecAdd(job.held, triangleNormal(hm, job.t)),
                            !.worker[w] = AfterAddition(job)]
        /\ UNCHANGED <<hm, edit, result, mesh, pc, count, runs, noise,
                       samples, builds, stamps,
                       mattePaintingManager, images>>

\* every triangle taken and every worker idle
PassDone ==
    /\ reduction.mode \in {"atomic", "racy"}
    /\ reduction.todo = {}
    /\ \A w \in DOMAIN reduction.worker : reduction.worker[w].k = 0

\* the atomic pass is over: its sums are kept and the pass starts again
\* from zeroed accumulators with additions that are not atomic
StartRacyPass ==
    /\ reduction.mode = "atomic"
    /\ PassDone
    /\ reduction' = [reduction EXCEPT
                        !.mode = "racy",
                        !.atomicResult = reduction.normals,
                        !.normals = ZeroNormals(hm),
                        !.todo = AllTriangles(hm)]
    /\ UNCHANGED <<hm, edit, result, mesh, pc, count, runs, noise, samples,
                   builds, stamps,
                   mattePaintingManager, images>>

NextWorkers ==
    \/ \E w \in Workers : TakeTriangle(w)
    \/ \E w \in Workers : AtomicAdd(w)
    \/ \E w \in Workers : ReadAccumulator(w)
    \/ \E w \in Workers : WriteAccumulator(w)
    \/ StartRacyPass

SpecWorkers == InitWorkers /\ [][NextWorkers]_vars

-----------------------------------------------------------------------------
(* generateProceduralHeightmap(width, height) followed by                  *)
(* createTerrainMesh(gl, heightmap), run one loop test at a time. Only the  *)
(* loop variables and the numbers of iterations are kept: no loop           *)
(* condition of either function reads a height.                            *)

\* largest width and height of the small grids
MaxPassDim == 2

\* the sizes run: the small grids, and one that reaches into the first
\* square pad
PassDims == ((0..MaxPassDim) \X (0..MaxPassDim)) \cup {<<52, 52>>}

\* the arguments x, y, width, height of the four drawRectangle calls
PassRectangles ==
    <<(<<50, 50, 40, 40>>), (<<170, 170, 35, 35>>),
      (<<100, 30, 60, 30>>), (<<30, 150, 50, 40>>)>>

\* the arguments centerX, centerY, radius of the drawCircle call
PassCircle == <<128, 128, 25>>

\* octaves of applyPerlinNoise(0.05, 8, 4)
PassOctaves == 4

NoPass ==
    [width |-> 0, height |-> 0, y |-> 0, x |-> 0, octave |-> 0, stamp |-> 0,
     i |-> 0, samples |-> 0, cells |-> 0, vertices |-> 0, indices |-> 0,
     triangles |-> 0, normalized |-> 0, floats |-> 0]

InitPasses ==
    /\ \E d \in PassDims : hm = [width |-> d[1], height |-> d[2], data |-> <<>>]
    /\ edit = [op |-> "none", args |-> <<>>, before |-> hm]
    /\ result = 0
    /\ mesh = NoMesh
    /\ pc = "applyPerlinNoise"
    /\ count = [NoPass EXCEPT !.width = hm.width, !.height = hm.height]
    /\ runs = <<>>
    /\ noise = PerlinNoise(0)
    /\ samples = <<>>
    /\ builds = <<>>
    /\ stamps = <<>>
    /\ reduction = NoReduction
    /\ mattePaintingManager = MattePaintingManager
    /\ images = NoImages

\* the loop variables at the start of the k-th drawRectangle call
EnterRectangle(c, k) ==
    [c EXCEPT !.stamp = k, !.y = PassRectangles[k][2], !.x = PassRectangles[k][1]]

\* the loop variables at the start of drawCircle: Math.floor(centerY - radius)
\* and Math.floor(centerX - radius) of whole numbers
EnterCircle(c) ==
    [c EXCEPT !.stamp = 5, !.y = PassCircle[2] - PassCircle[3],
              !.x = PassCircle[1] - PassCircle[3]]

\* applyPerlinNoise: for y, for x, for octave: value += perlin.get(...) * amp;
\* then this.add(x, y, value)
NoisePass ==
    /\ pc = "applyPerlinNoise"
    /\ IF count.y < count.height
       THEN /\ count' = IF count.x < count.width
                        THEN IF count.octave < PassOctaves
                             THEN [count EXCEPT !.samples = @ + 1, !.octave = @ + 1]
                             ELSE [count EXCEPT !.x = @ + 1, !.octave = 0]
                        ELSE [count EXCEPT !.y = @ + 1, !.x = 0]
            /\ pc' = "applyPerlinNoise"
       ELSE /\ count' = EnterRectangle(count, 1)
            /\ pc' = "drawRectangle"
    /\ UNCHANGED <<hm, edit, result, mesh, runs, noise, samples, builds,
                   stamps, reduction,
                   mattePaintingManager, images>>

\* drawRectangle: for (py = y; py < y + height && py < this.height; py++)
\*   for (px = x; px < x + width && px < this.width; px++)
RectanglePass ==
    /\ pc = "drawRectangle"
    /\ LET r == PassRectangles[count.stamp]
       IN  IF count.y < r[2] + r[4] /\ count.y < count.height
           THEN /\ count' = IF count.x < r[1] + r[3] /\ count.x < count.width
                            THEN [count EXCEPT !.cells = @ + 1, !.x = @ + 1]
                            ELSE [count EXCEPT !.y = @ + 1, !.x = r[1]]
                /\ pc' = "drawRectangle"
           ELSE IF count.stamp < Len(PassRectangles)
                THEN /\ count' = EnterRectangle(count, count.stamp + 1)
                     /\ pc' = "drawRectangle"
                ELSE /\ count' = EnterCircle(count)
                     /\ pc' = "drawCircle"
    /\ UNCHANGED <<hm, edit, result, mesh, runs, noise, samples, builds,
                   stamps, reduction,
                   mattePaintingManager, images>>

\* drawCircle: for (y = floor(centerY - radius); y <= ceil(centerY + radius); y++)
\*   for (x = floor(centerX - radius); x <= ceil(centerX + radius); x++)
CirclePass ==
    /\ pc = "drawCircle"
    /\ IF count.y <= PassCircle[2] + PassCircle[3]
       THEN /\ count' = IF count.x <= PassCircle[1] + PassCircle[3]
                        THEN [count EXCEPT !.cells = @ + 1, !.x = @ + 1]
                        ELSE [count EXCEPT !.y = @ + 1,
                                           !.x = PassCircle[1] - PassCircle[3]]
            /\ pc' = "drawCircle"
       ELSE /\ count' = [count EXCEPT !.y = 0, !.x = 0]
            /\ pc' = "vertices"
    /\ UNCHANGED <<hm, edit, result, mesh, runs, noise, samples, builds,
                   stamps, reduction,
                   mattePaintingManager, images>>

\* createTerrainMesh: for (z = 0; z < height; z++) for (x = 0; x < width; x++)
\*   vertices.push(...)
VertexPass ==
    /\ pc = "vertices"
    /\ IF count.y < count.height
       THEN /\ count' = IF count.x < count.width
                        THEN [count EXCEPT !.vertices = @ + 1, !.x = @ + 1]
                        ELSE [count EXCEPT !.y = @ + 1, !.x = 0]
            /\ pc' = "vertices"
       ELSE /\ count' = [count EXCEPT !.y = 0, !.x = 0]
            /\ pc' = "indices"
    /\ UNCHANGED <<hm, edit, result, mesh, runs, noise, samples, builds,
                   stamps, reduction,
                   mattePaintingManager, images>>

\* for (z = 0; z < height - 1; z++) for (x = 0; x < width - 1; x++)
\*   indices.push(...); indices.push(...)
IndexPass ==
    /\ pc = "indices"
    /\ IF count.y < count.height - 1
       THEN /\ count' = IF count.x < count.width - 1
                        THEN [count EXCEPT
                                 !.indices = @ + Len(quadIndices(count.width,
                                                                 count.x, count.y)),
                                 !.x = @ + 1]
                        ELSE [count EXCEPT !.y = @ + 1, !.x = 0]
            /\ pc' = "indices"
       ELSE /\ count' = [count EXCEPT !.i = 0]
            /\ pc' = "normals"
    /\ UNCHANGED <<hm, edit, result, mesh, runs, noise, samples, builds,
                   stamps, reduction,
                   mattePaintingManager, images>>

\* for (i = 0; i < indices.length; i += 3): one triangle's face normal
NormalPass ==
    /\ pc = "normals"
    /\ IF count.i < count.indices
       THEN /\ count' = [count EXCEPT !.triangles = @ + 1, !.i = @ + 3]
            /\ pc' = "normals"
       ELSE /\ count' = [count EXCEPT !.i = 0]
            /\ pc' = "normalize"
    /\ UNCHANGED <<hm, edit, result, mesh, runs, noise, samples, builds,
                   stamps, reduction,
                   mattePaintingManager, images>>

\* for (i = 0; i < normals.length; i++), normals.length = vertices.length
NormalizePass ==
    /\ pc = "normalize"
    /\ IF count.i < count.vertices
       THEN /\ count' = [count EXCEPT !.normalized = @ + 1, !.i = @ + 1]
            /\ pc' = "normalize"
       ELSE /\ count' = [count EXCEPT !.i = 0]
            /\ pc' = "interleave"
    /\ UNCHANGED <<hm, edit, result, mesh, runs, noise, samples, builds,
                   stamps, reduction,
                   mattePaintingManager, images>>

\* for (i = 0; i < vertices.length; i++): eight floats of vertexData
InterleavePass ==
    /\ pc = "interleave"
    /\ IF count.i < count.vertices
       THEN /\ count' = [count EXCEPT !.floats = @ + 8, !.i = @ + 1]
            /\ pc' = "interleave"
       ELSE /\ count' = count
            /\ pc' = "return"
    /\ UNCHANGED <<hm, edit, result, mesh, runs, noise, samples, builds,
                   stamps, reduction,
                   mattePaintingManager, images>>

NextPasses ==
    \/ NoisePass
    \/ RectanglePass
    \/ CirclePass
    \/ VertexPass
    \/ IndexPass
    \/ NormalPass
    \/ NormalizePass
    \/ InterleavePass
    \/ ReturnCounts

\* the program is one thread that runs each loop until its condition fails
SpecPasses == InitPasses /\ [][NextPasses]_vars /\ WF_vars(NextPasses)

-----------------------------------------------------------------------------
(* The matte painting system: a MattePaintingManager with its              *)
(* TextureLoader, calls of loadSkyboxTexture, loadSkyboxCubemap and of      *)
(* textureLoader.loadTexture for a layer, and the load and error events of  *)
(* the Image objects, which the browser delivers one at a time in any       *)
(* order after the call that set image.src has returned.                    *)

\* largest number of calls of the loading methods
MaxCalls == 3

\* the URLs loaded; the second is the cache key loadCubemap makes of the
\* first
Urls == {"sky.png", "cubemap_sky.png"}

\* cache.has(key)
has(cache, key) == \E i \in 1..Len(cache) : cache[i].key = key

\* cache.get(key) of a key that the cache has
cacheGet(cache, key) ==
    cache[CHOOSE i \in 1..Len(cache) : cache[i].key = key].texture

\* const cacheKey = `cubemap_${url}`
cubemapKey(url) == "cubemap_" \o url

\* the call recorded: which method of which caller, and what it returned
Call(method, url, owner, texture) ==
    [method |-> method, url |-> url, owner |-> owner, returned |-> texture]

\* loadTexture without the cache check
loadTexture_noCacheCheck(loader, im, url, owner) ==
    LET texture == im.textures + 1
        call == Len(im.calls) + 1
    IN  [loader |-> [loader EXCEPT !.cache =
                        Append(@, [key |-> url, texture |-> texture])],
         images |-> [im EXCEPT
                        !.textures = texture,
                        !.requests = Append(@, [src |-> url, key |-> url,
                                                method |-> "loadTexture",
                                                texture |-> texture,
                                                owner |-> owner, call |-> call,
                                                state |-> "pending"]),
                        !.calls = Append(@, Call("loadTexture", url, owner,
                                                 texture))],
         texture |-> texture]

\* loadTexture(url, onSuccess, onError) on the loader: the loader and the
\* images after the call, and the texture returned; owner names the caller
\* whose callbacks were passed
loadTexture(loader, im, url, owner) ==
    IF has(loader.cache, url)
    THEN [loader |-> loader,
          images |-> [im EXCEPT !.calls =
                         Append(@, Call("loadTexture", url, owner,
                                        cacheGet(loader.cache, url)))],
          texture |-> cacheGet(loader.cache, url)]
    ELSE LET texture == im.textures + 1
             call == Len(im.calls) + 1
         IN  [loader |-> [loader EXCEPT !.cache =
                             Append(@, [key |-> url, texture |-> texture])],
              images |-> [im EXCEPT
                             !.textures = texture,
                             !.requests = Append(@, [src |-> url, key |-> url,
                                                     method |-> "loadTexture",
                                                     texture |-> texture,
                                                     owner |-> owner, call |-> call,
                                                     state |-> "pending"]),
                             !.calls = Append(@, Call("loadTexture", url, owner,
                                                      texture))],
              texture |-> texture]

\* loadCubemap(url, onSuccess, onError) on the loader
loadCubemap(loader, im, url, owner) ==
    LET cacheKey == cubemapKey(url)
    IN  IF has(loader.cache, cacheKey)
        THEN [loader |-> loader,
              images |-> [im EXCEPT !.calls =
                             Append(@, Call("loadCubemap", url, owner,
                                            cacheGet(loader.cache, cacheKey)))],
              texture |-> cacheGet(loader.cache, cacheKey)]
        ELSE LET texture == im.textures + 1
                 call == Len(im.calls) + 1
             IN  [loader |-> [loader EXCEPT !.cache =
                                 Append(@, [key |-> cacheKey, texture |-> texture])],
                  images |-> [im EXCEPT
                                 !.textures = texture,
                                 !.requests = Append(@, [src |-> url, key |-> cacheKey,
                                                         method |-> "loadCubemap",
                                                         texture |-> texture,
                                                         owner |-> owner,
                                                         call |-> call,
                                                         state |-> "pending"]),
                                 !.calls = Append(@, Call("loadCubemap", url, owner,
                                                          texture))],
                  texture |-> texture]

\* the success callback of the caller
onSuccess(manager, owner) ==
    IF owner = "loadSkyboxTexture"
    THEN [manager EXCEPT !.useProcedural = FALSE, !.useCubemap = FALSE]
    ELSE IF owner = "loadSkyboxCubemap"
    THEN [manager EXCEPT !.useProcedural = FALSE, !.useCubemap = TRUE]
    ELSE manager

\* the error callback of the caller
onError(manager, owner) ==
    IF owner = "loadSkyboxTexture"
    THEN [manager EXCEPT !.useProcedural = TRUE]
    ELSE IF owner = "loadSkyboxCubemap"
    THEN [manager EXCEPT !.useProcedural = TRUE, !.useCubemap = FALSE]
    ELSE manager

\* the branch of renderSkybox: cubemap, textured or procedural program
renderSkybox(manager) ==
    IF manager.useCubemap THEN "cubemap"
    ELSE IF ~manager.useProcedural THEN "textured"
    ELSE "procedural"

\* const mattePaintingManager = new MattePaintingManager(gl)
InitSkybox ==
    /\ hm = Heightmap(0, 0)
    /\ edit = [op |-> "none", args |-> <<>>, before |-> hm]
    /\ result = 0
    /\ mesh = NoMesh
    /\ pc = "new"
    /\ count = NoCount
    /\ runs = <<>>
    /\ noise = PerlinNoise(0)
    /\ samples = <<>>
    /\ builds = <<>>
    /\ stamps = <<>>
    /\ reduction = NoReduction
    /\ mattePaintingManager = MattePaintingManager
    /\ images = NoImages

\* mattePaintingManager.loadSkyboxTexture(url)
LoadSkyboxTexture ==
    /\ Len(images.calls) < MaxCalls
    /\ \E url \in Urls :
          LET load == loadTexture(mattePaintingManager.textureLoader, images,
                                  url, "loadSkyboxTexture")
          IN  /\ mattePaintingManager' =
                     [mattePaintingManager EXCEPT
                         !.textureLoader = load.loader,
                         !.skyboxTexture = load.texture]
              /\ images' = load.images
    /\ UNCHANGED <<hm, edit, result, mesh, pc, count, runs, noise, samples,
                   builds, stamps, reduction>>

\* mattePaintingManager.loadSkyboxCubemap(url)
LoadSkyboxCubemap ==
    /\ Len(images.calls) < MaxCalls
    /\ \E url \in Urls :
          LET load == loadCubemap(mattePaintingManager.textureLoader, images,
                                  url, "loadSkyboxCubemap")
          IN  /\ mattePaintingManager' =
                     [mattePaintingManager EXCEPT
                         !.textureLoader = load.loader,
                         !.skyboxCubemap = load.texture]
              /\ images' = load.images
    /\ UNCHANGED <<hm, edit, result, mesh, pc, count, runs, noise, samples,
                   builds, stamps, reduction>>

\* this.textureLoader.loadTexture(url, ...) for a layer, whose callbacks
\* set the layer's texture and leave the manager's fields alone
LoadLayerTexture ==
    /\ Len(images.calls) < MaxCalls
    /\ \E url \in Urls :
          LET load == loadTexture(mattePaintingManager.textureLoader, images,
                                  url, "layer")
          IN  /\ mattePaintingManager' =
                     [mattePaintingManager EXCEPT !.textureLoader = load.loader]
              /\ images' = load.images
    /\ UNCHANGED <<hm, edit, result, mesh, pc, count, runs, noise, samples,
                   builds, stamps, reduction>>

\* what the callbacks run and the loads completed record of request k
Completed(im, k, outcome, callback) ==
    [im EXCEPT !.requests[k].state = outcome,
               !.invoked = Append(@, [call |-> im.requests[k].call,
                                      callback |-> callback]),
               !.completed = Append(@, [owner |-> im.requests[k].owner,
                                        outcome |-> outcome])]

\* image.onload of a pending request: the pixels are uploaded and
\* onSuccess(texture) is called
ImageLoad ==
    /\ \E k \in 1..Len(images.requests) :
          /\ images.requests[k].state = "pending"
          /\ mattePaintingManager' =
                 onSuccess(mattePaintingManager, images.requests[k].owner)
          /\ images' = Completed(images, k, "loaded", "onSuccess")
    /\ UNCHANGED <<hm, edit, result, mesh, pc, count, runs, noise, samples,
                   builds, stamps, reduction>>

\* image.onerror of a pending request: onError() is called
ImageError ==
    /\ \E k \in 1..Len(images.requests) :
          /\ images.requests[k].state = "pending"
          /\ mattePaintingManager' =
                 onError(mattePaintingManager, images.requests[k].owner)
          /\ images' = Completed(images, k, "failed", "onError")
    /\ UNCHANGED <<hm, edit, result, mesh, pc, count, runs, noise, samples,
                   builds, stamps, reduction>>

NextSkybox ==
    \/ LoadSkyboxTexture
    \/ LoadSkyboxCubemap
    \/ LoadLayerTexture
    \/ ImageLoad
    \/ ImageError

SpecSkybox == InitSkybox /\ [][NextSkybox]_vars

-----------------------------------------------------------------------------
(* The program sampling one PerlinNoise object: const perlin = new          *)
(* PerlinNoise() and then calls of perlin.get(x, y).                        *)

\* largest number of calls of get on the object
MaxSamples == 3

\* the points sampled: a grid corner, a point on a grid line, one inside a
\* cell and one in the next cell
SamplePoints == {<<0, 0>>, <<250, 0>>, <<250, 500>>, <<1250, 0>>}

\* the grid corners get(x, y) passes to dot_prod_grid
SampleCorners(x, y) == {Floor(x), Floor(x) + 1} \X {Floor(y), Floor(y) + 1}

InitNoise ==
    /\ hm = Heightmap(0, 0)
    /\ edit = [op |-> "none", args |-> <<>>, before |-> hm]
    /\ result = 0
    /\ mesh = NoMesh
    /\ pc = "new"
    /\ count = NoCount
    /\ runs = <<>>
    /\ \E seed \in Randoms : noise = PerlinNoise(seed)
    /\ samples = <<>>
    /\ builds = <<>>
    /\ stamps = <<>>
    /\ reduction = NoReduction
    /\ mattePaintingManager = MattePaintingManager
    /\ images = NoImages

\* perlin.get(x, y); random is what Math.random() yields for each corner
\* whose gradient this call draws
Sample ==
    /\ Len(samples) < MaxSamples
    /\ \E p \in SamplePoints :
          \E random \in [SampleCorners(p[1], p[2]) -> Randoms] :
              LET got == perlin_get(noise, p[1], p[2], random)
              IN  /\ noise' = got.perlin
                  /\ result' = got.value
                  /\ samples' = Append(samples,
                         [x |-> p[1], y |-> p[2], value |-> got.value,
                          remembered |-> Remembered(noise, <<p[1], p[2]>>)])
    /\ UNCHANGED <<hm, edit, mesh, pc, count, runs, builds, stamps, reduction,
                   mattePaintingManager, images>>

NextNoise == Sample

SpecNoise == InitNoise /\ [][NextNoise]_vars

-----------------------------------------------------------------------------
(* Properties of the Heightmap methods *)

InBounds(h, x, y) == 0 <= x /\ x < h.width /\ 0 <= y /\ y < h.height

\* the cells of a grid, as coordinate pairs
Cells(h) == (0..(h.width - 1)) \X (0..(h.height - 1))

CellValue(h, c) == h.data[c[2] * h.width + c[1]]

SameSize(a, b) == a.width = b.width /\ a.height = b.height

\* C1: get(x, y) returns the stored value of an in-bounds cell and exactly 0
\* for every coordinate outside the grid
C1_GetInBoundsOrZero ==
    edit.op = "get" =>
        LET x == edit.args[1]
            y == edit.args[2]
        IN  /\ InBounds(hm, x, y) => result = CellValue(hm, <<x, y>>)
            /\ ~InBounds(hm, x, y) => result = 0
            /\ hm = edit.before

\* a get just past the right edge of a grid whose cells are all non-zero
C1_Witness ==
    /\ edit.op = "get"
    /\ edit.args[1] = hm.width
    /\ edit.args[2] \in 0..(hm.height - 1)
    /\ hm.width >= 2
    /\ \A c \in Cells(hm) : CellValue(hm, c) # 0
    /\ result = 0

\* C2: set and add change no cell other than (x, y); out of bounds they
\* change nothing, in bounds set overwrites with v and add increases by d
C2_SetAddFrame ==
    edit.op \in {"set", "add"} =>
        LET x == edit.args[1]
            y == edit.args[2]
            v == edit.args[3]
            old == edit.before
        IN  /\ SameSize(hm, old)
            /\ DOMAIN hm.data = DOMAIN old.data
            /\ \A c \in Cells(hm) :
                  c # <<x, y>> => CellValue(hm, c) = CellValue(old, c)
            /\ ~InBounds(old, x, y) => hm = old
            /\ InBounds(old, x, y) =>
                  CellValue(hm, <<x, y>>) =
                      IF edit.op = "set" THEN v ELSE CellValue(old, <<x, y>>) + v

\* an add to an in-bounds cell that held a non-zero value, next to other cells
C2_Witness ==
    /\ edit.op = "add"
    /\ InBounds(hm, edit.args[1], edit.args[2])
    /\ CellValue(edit.before, <<edit.args[1], edit.args[2]>>) # 0
    /\ CellValue(hm, <<edit.args[1], edit.args[2]>>) # edit.args[3]
    /\ hm.width * hm.height >= 4

InRectangle(c, x0, y0, w, h) ==
    x0 <= c[1] /\ c[1] < x0 + w /\ y0 <= c[2] /\ c[2] < y0 + h

\* C3: after drawRectangle(x0, y0, w, h, v) every in-bounds cell of the
\* rectangle holds v and every other cell holds what it held before
C3_RectangleExact ==
    edit.op = "drawRectangle" =>
        LET a == edit.args
            old == edit.before
        IN  /\ SameSize(hm, old)
            /\ DOMAIN hm.data = DOMAIN old.data
            /\ \A c \in Cells(hm) :
                  CellValue(hm, c) =
                      IF InRectangle(c, a[1], a[2], a[3], a[4]) THEN a[5]
                      ELSE CellValue(old, c)

\* a rectangle starting left of the grid and ending inside it, on a grid
\* that is not flat: it covers some cells, and leaves others
C3_Witness ==
    /\ edit.op = "drawRectangle"
    /\ edit.args[1] = -1 /\ edit.args[3] = 2
    /\ edit.args[2] = hm.height - 1 /\ edit.args[4] = 2
    /\ hm.width >= 2 /\ hm.height >= 2
    /\ \E c, d \in Cells(hm) : CellValue(edit.before, c) # CellValue(edit.before, d)
    /\ hm # edit.before

\* squared distance of the cell c from the center, and the squared radius
DistSq(c, centerX, centerY) ==
    Mul(Num(c[1]) - centerX, Num(c[1]) - centerX)
        + Mul(Num(c[2]) - centerY, Num(c[2]) - centerY)

DiscExact(h, old, centerX, centerY, radius, v) ==
    /\ SameSize(h, old)
    /\ DOMAIN h.data = DOMAIN old.data
    /\ \A c \in Cells(h) :
          LET inside == DistSq(c, centerX, centerY) <= Mul(radius, radius)
          IN  /\ (CellValue(h, c) = v) <=> (inside \/ CellValue(old, c) = v)
              /\ inside => CellValue(h, c) = v
              /\ ~inside => CellValue(h, c) = CellValue(old, c)

\* C4 as stated, for every radius: an in-bounds cell holds v after
\* drawCircle(cx, cy, r, v) iff its squared distance is <= r^2 or it already
\* held v, and no cell further away is changed
C4_DiscExactAnyRadius ==
    edit.op = "drawCircle" =>
        DiscExact(hm, edit.before, edit.args[1], edit.args[2], edit.args[3],
                  edit.args[4])

\* C4, amended: the same for every radius r >= 0 (for r < 0 the loops run
\* from floor(c - r) up to ceil(c + r) < floor(c - r) and may visit nothing)
C4_DiscExact ==
    (edit.op = "drawCircle" /\ edit.args[3] >= 0) =>
        DiscExact(hm, edit.before, edit.args[1], edit.args[2], edit.args[3],
                  edit.args[4])

\* a circle of radius 1 around the cell (1, 1) of a 3 x 3 grid: the four
\* cells at distance exactly 1 are set, the four corners are not
C4_Witness ==
    /\ edit.op = "drawCircle"
    /\ edit.args[1] = Num(1) /\ edit.args[2] = Num(1) /\ edit.args[3] = Num(1)
    /\ hm.width = 3 /\ hm.height = 3
    /\ \A c \in {<<1, 0>>, <<0, 1>>, <<2, 1>>, <<1, 2>>, <<1, 1>>} :
          CellValue(hm, c) = edit.args[4] /\ CellValue(edit.before, c) # edit.args[4]
    /\ \A c \in {<<0, 0>>, <<2, 0>>, <<0, 2>>, <<2, 2>>} :
          CellValue(hm, c) # edit.args[4]

-----------------------------------------------------------------------------
(* Properties of createTerrainMesh *)

Up == <<0, Num(1), 0>>

\* the vertices of a built mesh, counted from 0
VertexIds(m) == 0..(m.vertexCount - 1)

\* the number of triangles of the index buffer that list vertex i
IncidentTriangles(m, i) ==
    Cardinality({t \in 0..((Len(m.ibo) \div 3) - 1) :
                    i \in {m.ibo[3 * t + 1], m.ibo[3 * t + 2], m.ibo[3 * t + 3]}})

\* C5 as stated, for every width and height: vertexCount = W * H and
\* indexCount = 6 * (W - 1) * (H - 1)
C5_CountsAnySize ==
    pc = "built" =>
        /\ mesh.vertexCount = hm.width * hm.height
        /\ mesh.indexCount = 6 * (hm.width - 1) * (hm.height - 1)

\* C5, amended: vertexCount = W * H for every W x H grid, and indexCount =
\* 6 * (W - 1) * (H - 1) when W >= 1 and H >= 1; an empty grid (W = 0 or
\* H = 0) has indexCount = 0
C5_Counts ==
    pc = "built" =>
        /\ mesh.vertexCount = hm.width * hm.height
        /\ Len(mesh.vbo) = 8 * mesh.vertexCount
        /\ mesh.indexCount = Len(mesh.ibo)
        /\ mesh.indexCount =
               IF hm.width >= 1 /\ hm.height >= 1
               THEN 6 * (hm.width - 1) * (hm.height - 1)
               ELSE 0

\* the mesh of a 3 x 3 grid: 9 vertices, 4 quads, 24 indices
C5_Witness ==
    /\ pc = "built"
    /\ hm.width = 3 /\ hm.height = 3
    /\ mesh.vertexCount = 9
    /\ mesh.indexCount = 24

\* C7: a grid with W < 2 or H < 2 builds to W * H vertices, no indices, and
\* the normal (0, 1, 0) at every vertex
C7_DegenerateGrid ==
    (pc = "built" /\ (hm.width < 2 \/ hm.height < 2)) =>
        /\ mesh.vertexCount = hm.width * hm.height
        /\ mesh.indexCount = 0
        /\ mesh.ibo = <<>>
        /\ \A i \in VertexIds(mesh) : VertexNormal(mesh, i) = Up

\* a single column of three samples at different heights, built
C7_Witness ==
    /\ pc = "built"
    /\ hm.width = 1 /\ hm.height = 3
    /\ mesh.vertexCount = 3
    /\ VertexPos(mesh, 0)[2] # VertexPos(mesh, 2)[2]

IsConstant(h) == \A c, d \in Cells(h) : CellValue(h, c) = CellValue(h, d)

\* C8: on a grid whose cells all hold one value, every face normal is
\* (0, 1, 0), every accumulated vertex normal is (0, k, 0) with k the number
\* of triangles at the vertex, and every vertex normal is exactly (0, 1, 0)
C8_FlatNormals ==
    (pc = "built" /\ IsConstant(hm)) =>
        LET vertices == generateVertices(hm)
            sums == accumulatedNormals(vertices, mesh.ibo)
        IN  /\ \A t \in 0..((Len(mesh.ibo) \div 3) - 1) :
                  faceNormal(vertices[mesh.ibo[3 * t + 1] + 1].pos,
                             vertices[mesh.ibo[3 * t + 2] + 1].pos,
                             vertices[mesh.ibo[3 * t + 3] + 1].pos) = Up
            /\ \A i \in VertexIds(mesh) :
                  /\ sums[i + 1] = <<0, Num(IncidentTriangles(mesh, i)), 0>>
                  /\ VertexNormal(mesh, i) = Up

\* a 3 x 3 grid filled with one non-zero value, built: its middle vertex
\* lies on six triangles, its corners on one or two
C8_Witness ==
    /\ pc = "built"
    /\ hm.width = 3 /\ hm.height = 3
    /\ IsConstant(hm)
    /\ CellValue(hm, <<0, 0>>) # 0
    /\ IncidentTriangles(mesh, 4) = 6
    /\ IncidentTriangles(mesh, 0) = 1

\* the end-to-end scenario: a zero 4 x 4 grid, drawRectangle(0, 0, 2, 2, 2.0),
\* then the build
Scenario ==
    /\ pc = "built"
    /\ edit.op = "drawRectangle"
    /\ edit.args = <<0, 0, 2, 2, Num(2)>>
    /\ edit.before = Heightmap(4, 4)

\* the vertices of the stamped corner: cells (0,0), (1,0), (0,1), (1,1)
StampedCorner == {0, 1, 4, 5}

ScenarioHeights ==
    /\ mesh.vertexCount = 16
    /\ mesh.indexCount = 54
    /\ \A i \in StampedCorner : VertexPos(mesh, i)[2] = Num(2)
    /\ \A i \in VertexIds(mesh) \ StampedCorner : VertexPos(mesh, i)[2] = 0

\* C9 as stated: 16 vertices, 54 indices, the four stamped vertices at
\* height 2.0 with normal (0, 1, 0), every other vertex at height 0.0
C9_ScenarioAllFlat ==
    Scenario =>
        /\ ScenarioHeights
        /\ \A i \in StampedCorner : VertexNormal(mesh, i) = Up

\* C9, amended: 16 vertices, 54 indices, the four stamped vertices at height
\* 2.0 and every other vertex at 0.0; of the stamped vertices only (0,0) has
\* normal (0, 1, 0): (1,0), (0,1) and (1,1) also lie on triangles that drop
\* to height 0, their accumulated normals are (2,3,0), (0,3,2) and (6,6,6),
\* and their normals lean towards +x, +z and both
C9_ScenarioEdgeNormals ==
    Scenario =>
        LET sums == accumulatedNormals(generateVertices(hm), mesh.ibo)
        IN  /\ ScenarioHeights
            /\ VertexNormal(mesh, 0) = Up
            /\ sums[1 + 1] = <<Num(2), Num(3), 0>>
            /\ sums[4 + 1] = <<0, Num(3), Num(2)>>
            /\ sums[5 + 1] = <<Num(6), Num(6), Num(6)>>
            /\ VertexNormal(mesh, 1)[1] > 0 /\ VertexNormal(mesh, 1)[3] = 0
            /\ VertexNormal(mesh, 4)[1] = 0 /\ VertexNormal(mesh, 4)[3] > 0
            /\ VertexNormal(mesh, 5)[1] > 0 /\ VertexNormal(mesh, 5)[3] > 0
            /\ \A i \in {1, 4, 5} :
                  VertexNormal(mesh, i)[2] > 0 /\ VertexNormal(mesh, i)[2] < Num(1)

\* the scenario has run to the built mesh
C9_Witness == Scenario /\ hm.width = 4 /\ mesh.vertexCount = 16

-----------------------------------------------------------------------------
(* Properties of generateProceduralHeightmap *)

\* C10: two runs of generateProceduralHeightmap with the same width and
\* height return Heightmaps with identical contents
C10_SameSizeSameContents ==
    \A i, j \in 1..Len(runs) :
        SameSize(runs[i], runs[j]) => runs[i].data = runs[j].data

-----------------------------------------------------------------------------
(* Properties of PerlinNoise *)

\* C11: on one PerlinNoise object, any two calls of get with the same (x, y)
\* return the same value, whatever was sampled between them and whatever
\* the first call returned (0, which the memory test takes for absent,
\* included)
C11_GetIdempotent ==
    \A i, j \in 1..Len(samples) :
        (samples[i].x = samples[j].x /\ samples[i].y = samples[j].y)
            => samples[i].value = samples[j].value

\* the same point was sampled first and third with another point between,
\* the first call returning 0 off the grid corners, and a point whose value
\* is remembered was sampled twice as well
C11_Witness ==
    /\ Len(samples) = 3
    /\ samples[1].x = samples[3].x /\ samples[1].y = samples[3].y
    /\ <<samples[2].x, samples[2].y>> # <<samples[1].x, samples[1].y>>
    /\ samples[1].x = 250
    /\ \/ samples[1].value = 0 /\ samples[1].y = 0
       \/ samples[1].value # 0 /\ Remembered(noise, <<250, 500>>)

\* C12: a gradient stored for a grid corner is never replaced or modified
\* by a later call: every step keeps each stored gradient as it is
C12_GradientsNeverChange ==
    [][\A k \in DOMAIN noise.gradients :
           /\ k \in DOMAIN noise'.gradients
           /\ noise'.gradients[k] = noise.gradients[k]]_vars

\* two different points sharing grid corners were sampled, so the second
\* call met gradients the first one had stored
C12_Witness ==
    /\ Len(samples) >= 2
    /\ <<samples[1].x, samples[1].y>> # <<samples[2].x, samples[2].y>>
    /\ SampleCorners(samples[1].x, samples[1].y)
           \cap SampleCorners(samples[2].x, samples[2].y) # {}
    /\ SampleCorners(samples[1].x, samples[1].y)
           \cup SampleCorners(samples[2].x, samples[2].y)
           = DOMAIN noise.gradients

-----------------------------------------------------------------------------
(* Properties of generateProceduralHeightmap, continued *)

\* the flat areas in the order they are drawn, as regions of the plane
InDisc(c, cx, cy, r) ==
    (c[1] - cx) * (c[1] - cx) + (c[2] - cy) * (c[2] - cy) <= r * r

InArea(c, x, y, width, height) ==
    x <= c[1] /\ c[1] < x + width /\ y <= c[2] /\ c[2] < y + height

\* the values of the flat areas covering cell c, in the order drawn
PadsOver(c) ==
    (IF InArea(c, 50, 50, 40, 40) THEN <<Num(2)>> ELSE <<>>)
        \o (IF InArea(c, 170, 170, 35, 35) THEN <<Num(2)>> ELSE <<>>)
        \o (IF InArea(c, 100, 30, 60, 30) THEN <<2500>> ELSE <<>>)
        \o (IF InArea(c, 30, 150, 50, 40) THEN <<1800>> ELSE <<>>)
        \o (IF InDisc(c, 128, 128, 25) THEN <<Num(3)>> ELSE <<>>)

\* the value of the last flat area covering a covered cell
LastPad(c) == PadsOver(c)[Len(PadsOver(c))]

-----------------------------------------------------------------------------
(* Properties of createTerrainMesh, continued *)

Abs(a) == IF a < 0 THEN -a ELSE a

LengthSq(n) == Mul(n[1], n[1]) + Mul(n[2], n[2]) + Mul(n[3], n[3])

\* the squared length of n is 1 up to the rounding of the representation
\* (one percent)
UnitLength(n) == Abs(LengthSq(n) - Num(1)) <= Scale \div 100

\* n times len is the vector s, up to the rounding of the division
Divided(n, s, len) ==
    \A k \in 1..3 : Abs(Mul(n[k], len) - s[k]) <= (len \div Scale) + 2

\* C14: every vertex normal of a built mesh is the accumulated sum of the
\* face normals at the vertex divided by its length, and has unit length,
\* when that length is > 0, and is (0, 1, 0) when it is 0; no normal is the
\* zero vector
C14_NormalsUnit ==
    pc = "built" =>
        LET sums == accumulatedNormals(generateVertices(hm), mesh.ibo)
        IN  \A i \in VertexIds(mesh) :
                LET n == VertexNormal(mesh, i)
                    len == Sqrt(LengthSq(sums[i + 1]))
                IN  /\ n # <<0, 0, 0>>
                    /\ IF len > 0
                       THEN UnitLength(n) /\ Divided(n, sums[i + 1], len)
                       ELSE n = Up

\* a 3 x 3 grid that is not flat has been built, with a tilted normal at a
\* vertex whose accumulated sum is longer than 1
C14_Witness ==
    /\ pc = "built"
    /\ hm.width = 3 /\ hm.height = 3
    /\ ~IsConstant(hm)
    /\ \E i \in VertexIds(mesh) :
          /\ VertexNormal(mesh, i) # Up
          /\ LengthSq(accumulatedNormals(generateVertices(hm), mesh.ibo)[i + 1])
                 > Num(4)

Coords(m, k) == {VertexPos(m, i)[k] : i \in VertexIds(m)}

MinCoord(m, k) == CHOOSE v \in Coords(m, k) : \A w \in Coords(m, k) : v <= w

MaxCoord(m, k) == CHOOSE v \in Coords(m, k) : \A w \in Coords(m, k) : v >= w

Triangles(m) == 0..((Len(m.ibo) \div 3) - 1)

Corners(m, t) == {m.ibo[3 * t + 1], m.ibo[3 * t + 2], m.ibo[3 * t + 3]}

\* the number of triangles with the edge between vertices a and b
EdgeTriangles(m, a, b) ==
    Cardinality({t \in Triangles(m) : {a, b} \subseteq Corners(m, t)})

\* the vertex of the grid sample (x, z)
VertexAt(h, x, z) == z * h.width + x

\* C17: on a grid with W, H >= 2 the two triangles of each quad share its
\* diagonal topRight-bottomLeft (and none has the other diagonal), every
\* edge between adjacent samples inside the grid is in exactly two
\* triangles and every such edge on the border in exactly one
C17_Watertight ==
    (pc = "built" /\ hm.width >= 2 /\ hm.height >= 2) =>
        /\ \A x \in 0..(hm.width - 2), z \in 0..(hm.height - 2) :
              /\ EdgeTriangles(mesh, VertexAt(hm, x + 1, z),
                                     VertexAt(hm, x, z + 1)) = 2
              /\ EdgeTriangles(mesh, VertexAt(hm, x, z),
                                     VertexAt(hm, x + 1, z + 1)) = 0
        /\ \A x \in 0..(hm.width - 2), z \in 0..(hm.height - 1) :
              EdgeTriangles(mesh, VertexAt(hm, x, z), VertexAt(hm, x + 1, z))
                  = IF z = 0 \/ z = hm.height - 1 THEN 1 ELSE 2
        /\ \A x \in 0..(hm.width - 1), z \in 0..(hm.height - 2) :
              EdgeTriangles(mesh, VertexAt(hm, x, z), VertexAt(hm, x, z + 1))
                  = IF x = 0 \/ x = hm.width - 1 THEN 1 ELSE 2
        /\ \A t \in Triangles(mesh) : Cardinality(Corners(mesh, t)) = 3

\* a 3 x 3 grid has been built: it has edges inside and on the border
C17_Witness ==
    /\ pc = "built"
    /\ hm.width = 3 /\ hm.height = 3
    /\ EdgeTriangles(mesh, 4, 5) = 2
    /\ EdgeTriangles(mesh, 0, 1) = 1

\* twice the signed area of triangle t in the grid plane, from the grid
\* coordinates of its vertices in the order listed
Winding(h, m, t) ==
    LET X(k) == m.ibo[3 * t + k] % h.width
        Z(k) == m.ibo[3 * t + k] \div h.width
    IN  (X(2) - X(1)) * (Z(3) - Z(1)) - (X(3) - X(1)) * (Z(2) - Z(1))

\* C20: the index buffer lists the quads in row-major order, quad (x, z)
\* as (topLeft, bottomLeft, topRight), (topRight, bottomLeft, bottomRight)
\* with topLeft = z * W + x, topRight = topLeft + 1,
\* bottomLeft = (z + 1) * W + x, bottomRight = bottomLeft + 1, and all
\* triangles have the same winding
C20_QuadOrderAndWinding ==
    (pc = "built" /\ hm.width >= 1 /\ hm.height >= 1) =>
        /\ Len(mesh.ibo) = 6 * (hm.width - 1) * (hm.height - 1)
        /\ \A x \in 0..(hm.width - 2), z \in 0..(hm.height - 2) :
              LET q == z * (hm.width - 1) + x
                  tl == z * hm.width + x
                  bl == (z + 1) * hm.width + x
              IN  SubSeq(mesh.ibo, 6 * q + 1, 6 * q + 6)
                      = <<tl, bl, tl + 1, tl + 1, bl, bl + 1>>
        /\ \A t, u \in Triangles(mesh) :
              Winding(hm, mesh, t) = Winding(hm, mesh, u)

\* a 3 x 3 grid has been built: its second quad is (1, 0), in the first row
C20_Witness ==
    /\ pc = "built"
    /\ hm.width = 3 /\ hm.height = 3
    /\ Len(mesh.ibo) = 24
    /\ SubSeq(mesh.ibo, 7, 12) = <<1, 4, 2, 2, 4, 5>>
    /\ Winding(hm, mesh, 0) # 0

-----------------------------------------------------------------------------
(* Properties of the Heightmap methods, continued *)

\* the Heightmap after the call recorded as s
Stamped(h, s) ==
    IF s.op = "drawRectangle"
    THEN drawRectangle(h, s.args[1], s.args[2], s.args[3], s.args[4], s.args[5])
    ELSE drawCircle(h, s.args[1], s.args[2], s.args[3], s.args[4])

\* the value a call draws
StampHeight(s) == s.args[Len(s.args)]

\* the cells a call covers: those of the rectangle, or those whose squared
\* distance from the center is at most the squared radius
Covers(s, c) ==
    IF s.op = "drawRectangle"
    THEN InArea(c, s.args[1], s.args[2], s.args[3], s.args[4])
    ELSE DistSq(c, s.args[1], s.args[2]) <= Mul(s.args[3], s.args[3])

\* after the calls A then B on hm, against B then A on the same Heightmap:
\* a cell covered by both holds the value of the call made last, every
\* other cell holds the same value in the two orders
LastStampWins(A, B) ==
    LET ab == hm
        ba == Stamped(Stamped(edit.before, B), A)
    IN  /\ SameSize(ab, ba)
        /\ \A c \in Cells(ab) :
              IF Covers(A, c) /\ Covers(B, c)
              THEN CellValue(ab, c) = StampHeight(B)
                   /\ CellValue(ba, c) = StampHeight(A)
              ELSE CellValue(ab, c) = CellValue(ba, c)

NonNegativeRadius(s) == s.op = "drawCircle" => s.args[3] >= 0

\* C19 as stated, for any two calls of drawRectangle and drawCircle: the
\* two orders agree outside the overlap, and in the overlap the call made
\* last wins
C19_LastStampWinsAnyRadius ==
    Len(stamps) = 2 => LastStampWins(stamps[1], stamps[2])

\* C19, amended: the same for calls whose circles have a radius >= 0
C19_LastStampWins ==
    (Len(stamps) = 2 /\ NonNegativeRadius(stamps[1])
                    /\ NonNegativeRadius(stamps[2]))
        => LastStampWins(stamps[1], stamps[2])

\* a rectangle and then a circle of radius >= 0 were drawn, with a cell
\* covered by both, a cell covered by the rectangle only and a cell
\* covered by neither
C19_Witness ==
    /\ Len(stamps) = 2
    /\ stamps[1].op = "drawRectangle" /\ stamps[2].op = "drawCircle"
    /\ stamps[2].args[3] >= 0
    /\ \E c \in Cells(hm) : Covers(stamps[1], c) /\ Covers(stamps[2], c)
    /\ \E c \in Cells(hm) : Covers(stamps[1], c) /\ ~Covers(stamps[2], c)
    /\ \E c \in Cells(hm) : ~Covers(stamps[1], c) /\ ~Covers(stamps[2], c)

-----------------------------------------------------------------------------
(* Properties of createTerrainMesh: normals and vertex buffer *)

\* the cross product a x b
Cross(a, b) ==
    <<Mul(a[2], b[3]) - Mul(a[3], b[2]),
      Mul(a[3], b[1]) - Mul(a[1], b[3]),
      Mul(a[1], b[2]) - Mul(a[2], b[1])>>

VecSub(a, b) == <<a[1] - b[1], a[2] - b[2], a[3] - b[3]>>

\* (v1 - v0) x (v2 - v0) of triangle t of mesh m, from the vertex positions
TriangleCross(m, t) ==
    LET v0 == VertexPos(m, m.ibo[3 * t + 1])
        v1 == VertexPos(m, m.ibo[3 * t + 2])
        v2 == VertexPos(m, m.ibo[3 * t + 3])
    IN  Cross(VecSub(v1, v0), VecSub(v2, v0))

\* the sum of TriangleCross over a set of triangles
RECURSIVE CrossSum(_, _)
CrossSum(m, ts) ==
    IF ts = {} THEN <<0, 0, 0>>
    ELSE LET t == CHOOSE u \in ts : TRUE
         IN  VecAdd(TriangleCross(m, t), CrossSum(m, ts \ {t}))

\* the triangles that list vertex i among their three indices
TrianglesAt(m, i) == {t \in Triangles(m) : i \in Corners(m, t)}

\* C21: after the normal pass the accumulated vector of each vertex is the
\* sum of the cross products (v1 - v0) x (v2 - v0) of exactly the triangles
\* that list the vertex, each counted once
C21_AccumulatedSums ==
    pc = "built" =>
        LET sums == accumulatedNormals(generateVertices(hm), mesh.ibo)
        IN  /\ Len(sums) = mesh.vertexCount
            /\ \A i \in VertexIds(mesh) :
                  sums[i + 1] = CrossSum(mesh, TrianglesAt(mesh, i))

\* a 3 x 3 grid that is not flat has been built: its middle vertex is
\* listed by six triangles, a corner by one or two
C21_Witness ==
    /\ pc = "built"
    /\ hm.width = 3 /\ hm.height = 3
    /\ ~IsConstant(hm)
    /\ Cardinality(TrianglesAt(mesh, 4)) = 6
    /\ Cardinality(TrianglesAt(mesh, 0)) = 1
    /\ CrossSum(mesh, TrianglesAt(mesh, 4))[1] # 0

\* the texture coordinates of vertex i of a mesh, counted from 0
VertexUV(m, i) == <<m.vbo[8 * i + 7], m.vbo[8 * i + 8]>>

\* C22: the vertex buffer holds 8 values per vertex, position(3),
\* normal(3), UV(2), 8 * W * H in all; vertex z * W + x has the position
\* (x - W / 2, get(x, z), z - H / 2) and the UV (x / W, z / H), and every UV
\* component lies in [0, 1]
C22_VertexBufferLayout ==
    pc = "built" =>
        /\ Len(mesh.vbo) = 8 * hm.width * hm.height
        /\ mesh.vertexCount = hm.width * hm.height
        /\ \A c \in Cells(hm) :
              LET i == c[2] * hm.width + c[1]
              IN  /\ VertexPos(mesh, i)
                         = <<Num(c[1]) - (Num(hm.width) \div 2),
                             CellValue(hm, c),
                             Num(c[2]) - (Num(hm.height) \div 2)>>
                  /\ VertexUV(mesh, i) = <<Div(Num(c[1]), Num(hm.width)),
                                            Div(Num(c[2]), Num(hm.height))>>
                  /\ \A k \in 1..2 : VertexUV(mesh, i)[k] >= 0
                                        /\ VertexUV(mesh, i)[k] <= Num(1)
                  /\ VertexNormal(mesh, i)
                         = smoothVertices(generateVertices(hm), mesh.ibo)[i + 1].normal

\* a 3 x 2 grid that is not flat has been built; its last vertex, (2, 1),
\* has the UV (2/3, 1/2)
C22_Witness ==
    /\ pc = "built"
    /\ hm.width = 3 /\ hm.height = 2
    /\ ~IsConstant(hm)
    /\ Len(mesh.vbo) = 48
    /\ VertexUV(mesh, 5) = <<666, 500>>
    /\ VertexPos(mesh, 5)[1] = 500

-----------------------------------------------------------------------------
(* Properties of PerlinNoise, continued *)

\* C23: once get(x, y) has been computed on a PerlinNoise object, every
\* later get(x, y) with the same key is answered from this.memory, without
\* computing the four corner dot products again, whatever value the first
\* call produced
C23_AnsweredFromMemory ==
    \A i, j \in 1..Len(samples) :
        (i < j /\ samples[i].x = samples[j].x /\ samples[i].y = samples[j].y)
            => samples[j].remembered

-----------------------------------------------------------------------------
(* Properties of applyPerlinNoise *)

\* sample(x, y) on the PerlinNoise object of the pass, all gradients drawn
SampleOf(perlin, x, y) == perlin_get(perlin, x, y, <<>>).value

\* the sum over k = from..octaves-1 of sample(x*f*2^k, y*f*2^k) * a / 2^k
RECURSIVE OctaveSum(_, _, _, _, _, _, _)
OctaveSum(perlin, x, y, f, a, k, octaves) ==
    IF k >= octaves THEN 0
    ELSE Mul(SampleOf(perlin, x * f * Pow2(k), y * f * Pow2(k)), a \div Pow2(k))
             + OctaveSum(perlin, x, y, f, a, k + 1, octaves)

\* C24: the noise pass adds to every cell (x, y), once, the sum over
\* k = 0..octaves-1 of sample(x*f*2^k, y*f*2^k) * a / 2^k, and 0 when
\* octaves = 0
C24_OctaveSums ==
    (pc = "noise" /\ edit.op = "applyPerlinNoise") =>
        LET f == edit.args[1]
            a == edit.args[2]
            octaves == edit.args[3]
        IN  /\ SameSize(hm, edit.before)
            /\ DOMAIN hm.data = DOMAIN edit.before.data
            /\ \A c \in Cells(hm) :
                  CellValue(hm, c)
                      = CellValue(edit.before, c)
                            + OctaveSum(noise, c[1], c[2], f, a, 0, octaves)
            /\ octaves = 0 => hm = edit.before

\* a pass of four octaves at amplitude 8 has run over a 2 x 2 grid whose
\* cells held different heights, (1, 1) getting a sum that is not 0 from
\* octaves that are not all 0
C24_Witness ==
    /\ pc = "noise" /\ edit.op = "applyPerlinNoise"
    /\ edit.args = <<50, Num(8), 4>>
    /\ hm.width = 2 /\ hm.height = 2
    /\ CellValue(edit.before, <<1, 1>>) # 0
    /\ CellValue(hm, <<1, 1>>) # CellValue(edit.before, <<1, 1>>)
    /\ SampleOf(noise, 50, 50) # 0 /\ SampleOf(noise, 400, 400) # 0

-----------------------------------------------------------------------------
(* C27, C28: face normals point up; indices name vertices                   *)

\* C27: on a grid of at least 2 x 2 every face normal has y = 1.0, so the
\* accumulated normal of a vertex has y = the number of triangles that list
\* the vertex, which is 1 to 6; its length is > 0, so the fallback (0, 1, 0)
\* is not taken, and the vertex normal has y > 0
C27_FaceNormalsUp ==
    (pc = "built" /\ hm.width >= 2 /\ hm.height >= 2) =>
        LET sums == accumulatedNormals(generateVertices(hm), mesh.ibo)
        IN  /\ \A t \in Triangles(mesh) : TriangleCross(mesh, t)[2] = Num(1)
            /\ \A i \in VertexIds(mesh) :
                  /\ IncidentTriangles(mesh, i) \in 1..6
                  /\ sums[i + 1][2] = Num(IncidentTriangles(mesh, i))
                  /\ Sqrt(LengthSq(sums[i + 1])) > 0
                  /\ VertexNormal(mesh, i)[2] > 0

\* a 3 x 3 grid that is not flat has been built: the middle vertex has six
\* triangles, a corner one, another corner two, and some normal is tilted
C27_Witness ==
    /\ pc = "built"
    /\ hm.width = 3 /\ hm.height = 3
    /\ ~IsConstant(hm)
    /\ IncidentTriangles(mesh, 4) = 6
    /\ IncidentTriangles(mesh, 0) = 1
    /\ IncidentTriangles(mesh, 2) = 2
    /\ \E i \in VertexIds(mesh) :
          VertexNormal(mesh, i)[2] > 0 /\ VertexNormal(mesh, i)[2] < Num(1)

\* C28: for every width and height >= 0 each index of the index buffer is
\* one of 0..W*H-1, and the three indices of a triangle differ from one
\* another
C28_IndicesInRange ==
    pc = "built" =>
        /\ \A k \in 1..Len(mesh.ibo) :
              mesh.ibo[k] \in 0..(hm.width * hm.height - 1)
        /\ \A t \in Triangles(mesh) :
              /\ mesh.ibo[3 * t + 1] # mesh.ibo[3 * t + 2]
              /\ mesh.ibo[3 * t + 1] # mesh.ibo[3 * t + 3]
              /\ mesh.ibo[3 * t + 2] # mesh.ibo[3 * t + 3]

\* a 3 x 2 grid has been built: its four triangles list vertex 0 first
\* and the last vertex, W * H - 1 = 5, last
C28_Witness ==
    /\ pc = "built"
    /\ hm.width = 3 /\ hm.height = 2
    /\ Len(mesh.ibo) = 12
    /\ mesh.ibo[1] = 0
    /\ mesh.ibo[12] = 5

-----------------------------------------------------------------------------
(* C25: the normal accumulation run by workers                              *)

\* the sums of the sequential pass over the mesh of hm
SequentialSums == accumulatedNormals(generateVertices(hm), generateIndices(hm))

-----------------------------------------------------------------------------
(* C26: generate followed by build terminates                               *)

Max0(n) == IF n > 0 THEN n ELSE 0

\* the cells of the boxes of the five stamps: four rectangles and the
\* 51 x 51 box around the circle
BoxCells == 40 * 40 + 35 * 35 + 60 * 30 + 50 * 40 + 51 * 51

\* the numbers of iterations counted when createTerrainMesh returns, with
\* the given number of triangles
PassCounts(triangles) ==
    /\ count.samples = count.width * count.height * PassOctaves
    /\ count.cells <= BoxCells
    /\ count.vertices = count.width * count.height
    /\ count.normalized = count.vertices
    /\ count.triangles = triangles
    /\ mesh.vertexCount = count.vertices
    /\ mesh.indexCount = 3 * count.triangles

\* C26 as stated: the build passes over 2 * (W - 1) * (H - 1) triangles for
\* every width and height >= 0
C26_TrianglePassAsStated ==
    pc = "returned" =>
        PassCounts(2 * (count.width - 1) * (count.height - 1))

\* C26, amended: generate followed by build always reaches the return of
\* createTerrainMesh, after W * H * octaves samples, at most the cells of
\* the stamps' boxes, W * H vertices and 2 * max(W - 1, 0) * max(H - 1, 0)
\* triangles
C26_Terminates ==
    /\ <>(pc = "returned")
    /\ [](pc = "returned" =>
            PassCounts(2 * Max0(count.width - 1) * Max0(count.height - 1)))

\* the run over the 52 x 52 grid has returned: its rectangle loops visited
\* cells of the first pad besides the 2,601 of the circle's box
C26_Witness ==
    /\ pc = "returned"
    /\ count.width = 52 /\ count.height = 52
    /\ count.samples = 52 * 52 * 4
    /\ count.cells = 2 * 2 + 51 * 51
    /\ count.triangles = 2 * 51 * 51

-----------------------------------------------------------------------------
(* C29, C30: the skybox mode and the texture cache                          *)

\* the loads of the skybox that have completed, oldest first
SkyboxLoads ==
    SelectSeq(images.completed,
              LAMBDA c : c.owner \in {"loadSkyboxTexture", "loadSkyboxCubemap"})

\* the mode that the outcome of a completed skybox load asks for
ModeOf(c) ==
    IF c.outcome = "failed" THEN "procedural"
    ELSE IF c.owner = "loadSkyboxCubemap" THEN "cubemap"
    ELSE "textured"

\* C29: useCubemap and useProcedural are never both true, and the branch
\* renderSkybox takes is the one that the most recently completed skybox
\* load asks for
C29_ModeMatchesLastLoad ==
    /\ ~(mattePaintingManager.useCubemap /\ mattePaintingManager.useProcedural)
    /\ SkyboxLoads # <<>> =>
          renderSkybox(mattePaintingManager) = ModeOf(SkyboxLoads[Len(SkyboxLoads)])

\* the requests that loadTexture made for a URL
TextureRequests(url) ==
    {k \in 1..Len(images.requests) :
        /\ images.requests[k].method = "loadTexture"
        /\ images.requests[k].src = url}

\* the calls of loadTexture for a URL, as positions in the list of calls
TextureCalls(url) ==
    {c \in 1..Len(images.calls) :
        images.calls[c].method = "loadTexture" /\ images.calls[c].url = url}

\* C30: loadTexture makes at most one Image request, and with it one
\* texture, per URL; the texture of a request is in the cache from the call
\* on, before and after the load completes or fails; every call for a URL
\* returns the texture the first call for it returned, and the callbacks of
\* a call that is not the first for its URL are never run
C30_OneTexturePerUrl ==
    \A url \in Urls :
        /\ Cardinality(TextureRequests(url)) <= 1
        /\ \A k \in TextureRequests(url) :
              /\ has(mattePaintingManager.textureLoader.cache, url)
              /\ cacheGet(mattePaintingManager.textureLoader.cache, url) =
                     images.requests[k].texture
              /\ images.requests[k].call \in TextureCalls(url)
        /\ \A c, d \in TextureCalls(url) :
              c < d =>
                  /\ images.calls[d].returned = images.calls[c].returned
                  /\ \A n \in 1..Len(images.invoked) : images.invoked[n].call # d

\* loadTexture was called three times for one URL by two callers: the first
\* call's request failed, before the third call; all three returned the
\* same texture and one callback, the first call's onError, has run
C30_Witness ==
    /\ Len(images.calls) = 3
    /\ \A c \in 1..3 : images.calls[c].method = "loadTexture"
                       /\ images.calls[c].url = "sky.png"
    /\ images.calls[1].owner # images.calls[2].owner
    /\ Len(images.requests) = 1
    /\ images.requests[1].state = "failed"
    /\ images.invoked = <<[call |-> 1, callback |-> "onError"]>>
    /\ images.textures = 1

====
